---- MODULE Spec2Model ----
(***************************************************************************)
(* Access-control resolver and collaboration-room lifecycle of the         *)
(* AstraDraw API (scene-access.service.ts, workspace-scenes.controller.ts, *)
(* teams.service.ts, collections.service.ts, workspaces.service.ts).       *)
(* The relational store is the state; every request handler is an action.  *)
(***************************************************************************)
EXTENDS Integers, Sequences, FiniteSets, TLC

\* ------------------------------------------------------------------ bounds
\* nanoid20() draws a room id: the ids a draw can produce.
MaxRoomIds == 1
\* randomBytes(16) draws a room key: the keys a draw can produce.
MaxKeys == 2
\* randomBytes(12) draws a nonce: the nonces a draw can produce.
MaxNonces == 1
\* How many administrative mutations (roles, teams, collections, moves) a
\* behaviour of the access-control layer performs.
MaxAdminOps == 2
\* How many of them a behaviour interleaves with the room lifecycle.
MaxRoomAdminOps == 1
\* The server secrets a deployment may be configured with.
MaxSecrets == 1

RoomIds == 1..MaxRoomIds
RoomKeys == 1..MaxKeys
\* The room keys the startCollaboration of the earlier controller
\* (src/workspace/workspace-scenes.controller.ts) drew with nanoid40().
LegacyRoomKeys == {MaxKeys + 1}
\* The plaintexts the cipher works on.
KeySpace == MaxKeys + 1
Nonces == 1..MaxNonces

\* ---------------------------------------------------------------- entities
\* The users, workspaces, teams, collections and scenes of the store, a cut
\* of those prisma/seed.ts creates.
Users == {"alice", "bob", "dave", "eve"}
Workspaces == {"acme", "alicePersonal"}
TeamIds == {"engineering", "design", "ops"}
InviteCodes == {"code1", "code2"}
CollectionIds == {"engDocs", "bobPrivate"}
SceneIds == {"s1", "s2", "s3"}

Roles == {"ADMIN", "MEMBER", "VIEWER"}
AccessLevels == {"VIEW", "EDIT"}

\* An absent optional value (null / undefined) and a present one.
Null == <<>>
Some(x) == <<x>>
Val(o) == o[1]
\* A null foreign key or an absent row, for string-valued columns.
NONE == "NONE"

VARIABLES
  members,          \* workspace_members: [workspace -> [user -> role or NONE]]
  collections,      \* collections: [id -> [workspaceId, userId, isPrivate]]
  teamMembers,      \* team_members: set of <<teamId, userId>>
  teamCollections,  \* team_collections in store order: Seq of [teamId, collectionId, accessLevel]
  scenes,           \* scenes: [id -> [exists, userId, collectionId, collaborationEnabled, roomId, roomKeyEncrypted]]
  secret,           \* process.env.ROOM_KEY_SECRET || process.env.JWT_SECRET (Null when unset)
  adminOps,         \* administrative mutations the behaviour may still perform
  issued,           \* per scene: the credentials a provisioning request last returned (Null after a move)
  calls,            \* per server task: the request it is handling, between its awaits
  teams,            \* teams: [id -> workspaceId, NONE when no such row]
  inviteLinks,      \* invite_links: [code -> [exists, workspaceId, role, expiresAt, maxUses, uses]]
  requests          \* per server task: the membership request it is handling, between its awaits

store == <<members, collections, teamMembers, teamCollections, scenes, teams, inviteLinks>>
vars == <<members, collections, teamMembers, teamCollections, scenes, secret, adminOps, issued, calls,
          teams, inviteLinks, requests>>

\* workspace.type; no handler changes it.
WorkspaceType(w) == IF w = "alicePersonal" THEN "PERSONAL" ELSE "SHARED"
\* team.workspaceId
TeamWorkspace(t) == teams[t]

\* ------------------------------------------------------------------ crypto
\* createHash('sha256').update(secret).digest(): the derived AES key, one per secret.
DeriveKey(s) == <<"sha256", s>>

\* The keystream of AES-GCM under (key, iv), as an offset on the key space.
KeyStream(k, iv) == k[2] + iv

\* cipher.update(roomKey) || cipher.final()
Cipher(k, iv, roomKey) == ((roomKey - 1 + KeyStream(k, iv)) % KeySpace) + 1
Decipher(k, iv, ct) == ((ct - 1 + KeySpace * (1 + KeyStream(k, iv)) - KeyStream(k, iv)) % KeySpace) + 1

\* cipher.getAuthTag(): an ideal MAC over the key, the nonce and the
\* ciphertext.
AuthTag(k, iv, ct) == <<k, iv, ct>>

\* randomBytes(12): the length of the nonce, in bytes.
IvBytes == 12
\* The length of the AES-GCM authentication tag getAuthTag returns, in bytes.
AuthTagBytes == 16
\* buffer.subarray(0, 12), buffer.subarray(12, 28), buffer.subarray(28)
IvEnd == 12
AuthTagEnd == 28

\* A value laid out over n bytes: byte i of it. The ciphertext of a room key
\* is laid out over one byte.
Bytes(v, n) == [i \in 1..n |-> <<v, i>>]
\* The value a run of bytes holds; 0 when the bytes are not those of one value.
BytesValue(cells) ==
  IF cells # <<>> /\ cells = Bytes(cells[1][1], Len(cells)) THEN cells[1][1] ELSE 0
\* buffer.subarray(start, end), zero-based with end excluded.
subarray(buffer, start, end) == SubSeq(buffer, start + 1, end)

\* A decryptRoomKey that takes the tag as the 12 bytes after the nonce.
decryptRoomKeyShortTag(sec, buffer) ==
  LET k == IF sec = Null THEN [ok |-> FALSE, key |-> Null]
           ELSE [ok |-> TRUE, key |-> Some(DeriveKey(Val(sec)))]
      iv == subarray(buffer, 0, IvEnd)
      authTag == subarray(buffer, IvEnd, IvEnd + 12)
      ciphertext == subarray(buffer, IvEnd + 12, Len(buffer))
  IN
  IF ~k.ok THEN [ok |-> FALSE, error |-> "Misconfigured", roomKey |-> Null]
  ELSE IF authTag # Bytes(AuthTag(Val(k.key), BytesValue(iv), BytesValue(ciphertext)), AuthTagBytes)
       THEN [ok |-> FALSE, error |-> "IntegrityFailure", roomKey |-> Null]
       ELSE [ok |-> TRUE, error |-> "",
             roomKey |-> Some(Decipher(Val(k.key), BytesValue(iv), BytesValue(ciphertext)))]

\* A getRoomKeySecret that falls back to a built-in secret.
getRoomKeySecretWithDefault(sec) ==
  IF sec = Null THEN [ok |-> TRUE, key |-> Some(DeriveKey(0))]
  ELSE [ok |-> TRUE, key |-> Some(DeriveKey(Val(sec)))]

\* ---------------------------------------------------------- room key text
\* randomBytes(16): the length of a room key, in bytes.
RoomKeyBytes == 16
\* The 16 bytes draw k of randomBytes(16) yields.
randomBytes16(k) == [i \in 1..RoomKeyBytes |-> (259 - 4 * k + (k - 1) * i) % 256]

\* The base64 alphabet.
Base64Chars ==
  <<"A", "B", "C", "D", "E", "F", "G", "H", "I", "J", "K", "L", "M", "N", "O", "P",
    "Q", "R", "S", "T", "U", "V", "W", "X", "Y", "Z", "a", "b", "c", "d", "e", "f",
    "g", "h", "i", "j", "k", "l", "m", "n", "o", "p", "q", "r", "s", "t", "u", "v",
    "w", "x", "y", "z", "0", "1", "2", "3", "4", "5", "6", "7", "8", "9", "+", "/">>

\* Buffer.prototype.toString('base64'): three bytes to four characters, the
\* last group padded with "=".
RECURSIVE toBase64(_)
toBase64(bytes) ==
  IF bytes = <<>> THEN <<>>
  ELSE IF Len(bytes) = 1
  THEN <<Base64Chars[(bytes[1] \div 4) + 1], Base64Chars[(bytes[1] % 4) * 16 + 1], "=", "=">>
  ELSE IF Len(bytes) = 2
  THEN <<Base64Chars[(bytes[1] \div 4) + 1],
         Base64Chars[(bytes[1] % 4) * 16 + (bytes[2] \div 16) + 1],
         Base64Chars[(bytes[2] % 16) * 4 + 1], "=">>
  ELSE <<Base64Chars[(bytes[1] \div 4) + 1],
         Base64Chars[(bytes[1] % 4) * 16 + (bytes[2] \div 16) + 1],
         Base64Chars[(bytes[2] % 16) * 4 + (bytes[3] \div 64) + 1],
         Base64Chars[(bytes[3] % 64) + 1]>>
       \o toBase64(SubSeq(bytes, 4, Len(bytes)))

\* String.prototype.replace(/from/g, to) on a string kept as its characters;
\* to = "" removes the character.
replaceAll(str, from, to) ==
  IF to = "" THEN SelectSeq(str, LAMBDA c : c # from)
  ELSE [i \in 1..Len(str) |-> IF str[i] = from THEN to ELSE str[i]]

\* generateRoomKey: the text of the room key draw k gives.
generateRoomKey(k) ==
  replaceAll(replaceAll(replaceAll(toBase64(randomBytes16(k)), "+", "-"), "/", "_"), "=", "")

\* customAlphabet('0123456789abcdefghijklmnopqrstuvwxyz', 40)
NanoidChars ==
  <<"0", "1", "2", "3", "4", "5", "6", "7", "8", "9", "a", "b", "c", "d", "e", "f",
    "g", "h", "i", "j", "k", "l", "m", "n", "o", "p", "q", "r", "s", "t", "u", "v",
    "w", "x", "y", "z">>
NanoidKeyChars == 40
\* nanoid40(): the text of the room key draw k gave the earlier controller.
nanoid40(k) == [i \in 1..NanoidKeyChars |-> NanoidChars[((7 * k + 5 * i) % 36) + 1]]

\* The string a room key is: what the client receives and what
\* encryptRoomKey is given.
RoomKeyText(k) == IF k \in RoomKeys THEN generateRoomKey(k) ELSE nanoid40(k)

\* getRoomKeySecret: throws when no secret is configured.
getRoomKeySecret(sec) ==
  IF sec = Null THEN [ok |-> FALSE, key |-> Null]
  ELSE [ok |-> TRUE, key |-> Some(DeriveKey(Val(sec)))]

\* encryptRoomKey: Buffer.concat([iv, authTag, encrypted]); iv is the nonce
\* randomBytes(12) draws.
encryptRoomKey(sec, iv, roomKey) ==
  LET k == getRoomKeySecret(sec) IN
  IF ~k.ok THEN [ok |-> FALSE, error |-> "Misconfigured", blob |-> Null]
  ELSE LET encrypted == Cipher(Val(k.key), iv, roomKey)
           authTag == AuthTag(Val(k.key), iv, encrypted)
       IN [ok |-> TRUE, error |-> "",
           blob |-> Some(Bytes(iv, IvBytes) \o Bytes(authTag, AuthTagBytes) \o Bytes(encrypted, 1))]

\* A decryptRoomKey that returns the plaintext without verifying the tag.
decryptRoomKeyUnverified(sec, buffer) ==
  LET k == getRoomKeySecret(sec)
      iv == subarray(buffer, 0, IvEnd)
      ciphertext == subarray(buffer, AuthTagEnd, Len(buffer))
  IN
  IF ~k.ok THEN [ok |-> FALSE, error |-> "Misconfigured", roomKey |-> Null]
  ELSE [ok |-> TRUE, error |-> "",
        roomKey |-> Some(Decipher(Val(k.key), BytesValue(iv), BytesValue(ciphertext)))]

\* decryptRoomKey: slices the buffer, verifies the tag (decipher.final throws
\* on a mismatch), returns the plaintext.
decryptRoomKey(sec, buffer) ==
  LET k == getRoomKeySecret(sec)
      iv == subarray(buffer, 0, IvEnd)
      authTag == subarray(buffer, IvEnd, AuthTagEnd)
      ciphertext == subarray(buffer, AuthTagEnd, Len(buffer))
  IN
  IF ~k.ok THEN [ok |-> FALSE, error |-> "Misconfigured", roomKey |-> Null]
  ELSE IF authTag # Bytes(AuthTag(Val(k.key), BytesValue(iv), BytesValue(ciphertext)), AuthTagBytes)
       THEN [ok |-> FALSE, error |-> "IntegrityFailure", roomKey |-> Null]
       ELSE [ok |-> TRUE, error |-> "",
             roomKey |-> Some(Decipher(Val(k.key), BytesValue(iv), BytesValue(ciphertext)))]

\* ------------------------------------------------------- membership lookups
\* workspaceMember.findUnique({workspaceId_userId})
getMembership(w, u) == members[w][u]

\* membership.teamMemberships.map(tm => tm.teamId): the teams of the
\* caller's membership in workspace w.
UserTeamIds(w, u) ==
  IF members[w][u] = NONE THEN {}
  ELSE {t \in TeamIds : <<t, u>> \in teamMembers /\ TeamWorkspace(t) = w}

\* Array.prototype.find: the first of the elements that satisfy the predicate,
\* given those elements in array order.
FindFirst(hits) == IF hits = <<>> THEN Null ELSE Some(Head(hits))

\* ------------------------------------------------- Scene Access Resolver
Verdict(v, e, c) == [canView |-> v, canEdit |-> e, canCollaborate |-> c]

\* scene.collection.teamCollections: the grants on a collection, as the store
\* returns them.
CollectionGrants(c) == SelectSeq(teamCollections, LAMBDA tc : tc.collectionId = c)

\* A PERSONAL row that lets the scene's owner collaborate on an enabled scene.
personalAccessCollaborates(scene, userId) ==
  LET isOwner == scene.userId = userId IN
  Verdict(isOwner, isOwner, isOwner /\ scene.collaborationEnabled)

\* The PERSONAL row of checkAccess: the scene's owner, never collaboration.
personalAccess(scene, userId) ==
  LET isOwner == scene.userId = userId IN Verdict(isOwner, isOwner, FALSE)

\* The ADMIN row of checkAccess.
adminAccess(scene) == Verdict(TRUE, TRUE, scene.collaborationEnabled)

\* Team rows without the role ceiling: an EDIT grant alone gives canEdit.
teamGrantAccessNoCeiling(scene, workspace, membership, userId) ==
  LET userTeamIds == UserTeamIds(workspace, userId)
      teamAccess == FindFirst(SelectSeq(CollectionGrants(scene.collectionId),
                                        LAMBDA tc : tc.teamId \in userTeamIds))
  IN
  IF teamAccess = Null THEN Verdict(FALSE, FALSE, FALSE)
  ELSE
    LET canEdit == Val(teamAccess).accessLevel = "EDIT" IN
    Verdict(TRUE, canEdit, scene.collaborationEnabled /\ canEdit)

\* The team rows of checkAccess: teamAccess is the first grant on the scene's
\* collection, in the order the store returns them, that one of the caller's
\* teams holds.
teamGrantAccess(scene, workspace, membership, userId) ==
  LET userTeamIds == UserTeamIds(workspace, userId)
      teamAccess == FindFirst(SelectSeq(CollectionGrants(scene.collectionId),
                                        LAMBDA tc : tc.teamId \in userTeamIds))
  IN
  IF teamAccess = Null THEN Verdict(FALSE, FALSE, FALSE)
  ELSE
    LET canEdit == Val(teamAccess).accessLevel = "EDIT" /\ membership # "VIEWER" IN
    Verdict(TRUE, canEdit, scene.collaborationEnabled /\ canEdit)

\* A private-collection row that falls back to the team grants for a caller
\* who is not the owner.
privateAccessOrTeamGrant(scene, collection, membership, userId) ==
  IF collection.userId = userId
  THEN Verdict(TRUE, membership # "VIEWER", scene.collaborationEnabled)
  ELSE teamGrantAccess(scene, collection.workspaceId, membership, userId)

\* The private-collection row of checkAccess.
privateAccess(scene, collection, membership, userId) ==
  LET isOwner == collection.userId = userId IN
  Verdict(isOwner,
          isOwner /\ membership # "VIEWER",
          isOwner /\ scene.collaborationEnabled)

\* A checkAccess that lets a caller without membership view the scene.
checkAccessOpenToNonMembers(sceneId, userId) ==
  LET scene == scenes[sceneId] IN
  IF ~scene.exists THEN Verdict(FALSE, FALSE, FALSE)
  ELSE IF scene.collectionId = NONE
  THEN LET isOwner == scene.userId = userId IN Verdict(isOwner, isOwner, FALSE)
  ELSE
    LET collection == collections[scene.collectionId]
        workspace == collection.workspaceId
        membership == getMembership(workspace, userId)
    IN
    IF membership = NONE THEN Verdict(TRUE, FALSE, FALSE)
    ELSE IF WorkspaceType(workspace) = "PERSONAL" THEN personalAccess(scene, userId)
    ELSE IF membership = "ADMIN" THEN adminAccess(scene)
    ELSE IF collection.isPrivate THEN privateAccess(scene, collection, membership, userId)
    ELSE teamGrantAccess(scene, workspace, membership, userId)

\* SceneAccessService.checkAccess
checkAccess(sceneId, userId) ==
  LET scene == scenes[sceneId] IN
  IF ~scene.exists THEN Verdict(FALSE, FALSE, FALSE)
  ELSE IF scene.collectionId = NONE
  THEN LET isOwner == scene.userId = userId IN Verdict(isOwner, isOwner, FALSE)
  ELSE
    LET collection == collections[scene.collectionId]
        workspace == collection.workspaceId
        membership == getMembership(workspace, userId)
    IN
    IF membership = NONE THEN Verdict(FALSE, FALSE, FALSE)
    ELSE IF WorkspaceType(workspace) = "PERSONAL" THEN personalAccess(scene, userId)
    ELSE IF membership = "ADMIN" THEN adminAccess(scene)
    ELSE IF collection.isPrivate THEN privateAccess(scene, collection, membership, userId)
    ELSE teamGrantAccess(scene, workspace, membership, userId)

\* ------------------------------------------------- Team Access Aggregator
\* collectionMap.get / collectionMap.set of a JS Map kept as the sequence of
\* its entries in insertion order.
MapHas(m, c) == \E i \in 1..Len(m) : m[i].collectionId = c
MapGet(m, c) == (CHOOSE i \in 1..Len(m) : m[i].collectionId = c)
MapSet(m, c, level) ==
  IF MapHas(m, c)
  THEN [m EXCEPT ![MapGet(m, c)] = [collectionId |-> c, accessLevel |-> level]]
  ELSE Append(m, [collectionId |-> c, accessLevel |-> level])

\* A deduplicating loop that keeps the first level it meets for a collection.
RECURSIVE MergeGrantsFirstWins(_, _)
MergeGrantsFirstWins(rows, m) ==
  IF rows = <<>> THEN m
  ELSE LET tc == Head(rows) IN
       IF MapHas(m, tc.collectionId)
       THEN MergeGrantsFirstWins(Tail(rows), m)
       ELSE MergeGrantsFirstWins(Tail(rows), MapSet(m, tc.collectionId, tc.accessLevel))

\* The deduplicating loop of getAccessibleCollectionIds over the grant rows.
RECURSIVE MergeGrants(_, _)
MergeGrants(rows, m) ==
  IF rows = <<>> THEN m
  ELSE LET tc == Head(rows) IN
       IF MapHas(m, tc.collectionId) /\ m[MapGet(m, tc.collectionId)].accessLevel = "EDIT"
       THEN MergeGrants(Tail(rows), m)
       ELSE MergeGrants(Tail(rows), MapSet(m, tc.collectionId, tc.accessLevel))

\* TeamsService.getAccessibleCollectionIds
getAccessibleCollectionIds(workspaceId, userId) ==
  IF getMembership(workspaceId, userId) = NONE THEN <<>>
  ELSE
    LET teamIds == UserTeamIds(workspaceId, userId) IN
    IF teamIds = {} THEN <<>>
    ELSE
      LET rows == SelectSeq(teamCollections, LAMBDA tc : tc.teamId \in teamIds)
          m == MergeGrants(rows, <<>>)
      IN [i \in 1..Len(m) |->
            [collectionId |-> m[i].collectionId,
             accessLevel |-> m[i].accessLevel,
             canWrite |-> m[i].accessLevel = "EDIT"]]

\* -------------------------------------------- Collection Access Evaluator
\* CollectionsService.getCollection: the access part of its result, or the
\* exception it throws.
getCollection(collectionId, userId) ==
  LET collection == collections[collectionId]
      membership == getMembership(collection.workspaceId, userId)
      isAdmin == membership = "ADMIN"
      isOwner == collection.userId = userId
      teamAccess == getAccessibleCollectionIds(collection.workspaceId, userId)
      hit == FindFirst(SelectSeq(teamAccess, LAMBDA e : e.collectionId = collectionId))
      teamWriteAccess == IF hit = Null THEN FALSE ELSE Val(hit).canWrite
  IN
  IF membership = NONE
  THEN [status |-> "Forbidden", reason |-> "NoMembership", canWrite |-> FALSE, isOwner |-> FALSE]
  ELSE IF ~isAdmin /\ ~isOwner /\ collection.isPrivate
  THEN [status |-> "Forbidden", reason |-> "PrivateCollection", canWrite |-> FALSE, isOwner |-> FALSE]
  ELSE IF ~isAdmin /\ ~isOwner /\ hit = Null
  THEN [status |-> "Forbidden", reason |-> "NoTeamGrant", canWrite |-> FALSE, isOwner |-> FALSE]
  ELSE [status |-> "ok", reason |-> "",
        canWrite |-> isAdmin \/ isOwner \/ teamWriteAccess, isOwner |-> isOwner]

\* findMany({ where: { workspaceId }, orderBy: [{ isPrivate: 'asc' }, { name: 'asc' }] }):
\* the collections of the workspace, the non-private ones first, each group
\* by name.
CollectionsByName == <<"bobPrivate", "engDocs">>
findManyCollections(workspaceId) ==
  SelectSeq(CollectionsByName,
            LAMBDA c : collections[c].workspaceId = workspaceId /\ ~collections[c].isPrivate)
  \o SelectSeq(CollectionsByName,
               LAMBDA c : collections[c].workspaceId = workspaceId /\ collections[c].isPrivate)

\* A listing that shows every collection a team grant names, private or not.
listCollectionsIgnoringPrivacy(workspaceId, userId) ==
  LET membership == getMembership(workspaceId, userId)
      isAdmin == membership = "ADMIN"
      teamAccess == getAccessibleCollectionIds(workspaceId, userId)
      teamCollectionIds == {teamAccess[i].collectionId : i \in 1..Len(teamAccess)}
      teamWriteAccess(c) == \E i \in 1..Len(teamAccess) :
                               teamAccess[i].collectionId = c /\ teamAccess[i].canWrite
      canSee(c) == isAdmin \/ collections[c].userId = userId \/ c \in teamCollectionIds
      seen == SelectSeq(findManyCollections(workspaceId), canSee)
  IN
  IF membership = NONE THEN [status |-> "Forbidden", list |-> <<>>]
  ELSE [status |-> "ok",
        list |-> [i \in 1..Len(seen) |->
                    [id |-> seen[i],
                     canWrite |-> isAdmin \/ collections[seen[i]].userId = userId
                                          \/ teamWriteAccess(seen[i]),
                     isOwner |-> collections[seen[i]].userId = userId]]]

\* CollectionsService.listCollections: the exception of requireMembership, or
\* the list of { id, canWrite, isOwner } it returns.
listCollections(workspaceId, userId) ==
  LET membership == getMembership(workspaceId, userId)
      isAdmin == membership = "ADMIN"
      teamAccess == getAccessibleCollectionIds(workspaceId, userId)
      teamCollectionIds == {teamAccess[i].collectionId : i \in 1..Len(teamAccess)}
      teamWriteAccess(c) == \E i \in 1..Len(teamAccess) :
                               teamAccess[i].collectionId = c /\ teamAccess[i].canWrite
      canSee(c) == \/ isAdmin
                   \/ collections[c].userId = userId
                   \/ (~collections[c].isPrivate /\ c \in teamCollectionIds)
      seen == SelectSeq(findManyCollections(workspaceId), canSee)
  IN
  IF membership = NONE THEN [status |-> "Forbidden", list |-> <<>>]
  ELSE [status |-> "ok",
        list |-> [i \in 1..Len(seen) |->
                    [id |-> seen[i],
                     canWrite |-> isAdmin \/ collections[seen[i]].userId = userId
                                          \/ teamWriteAccess(seen[i]),
                     isOwner |-> collections[seen[i]].userId = userId]]]

\* WorkspaceScenesController.listWorkspaceScenes (listScenes with a
\* workspaceId; collectionId is NONE when the query has none): the exception
\* thrown, or the { id, canEdit } of the scenes returned (their order, by
\* updatedAt, is left out).
listWorkspaceScenes(userId, workspaceId, collectionId) ==
  LET membership == getMembership(workspaceId, userId)
      isAdmin == membership = "ADMIN"
      accessibleCollections == listCollections(workspaceId, userId).list
      accessibleCollectionIds ==
        {accessibleCollections[i].id : i \in 1..Len(accessibleCollections)}
      writeAccessIds ==
        {accessibleCollections[i].id :
           i \in {j \in 1..Len(accessibleCollections) : accessibleCollections[j].canWrite}}
      where(s) ==
        IF collectionId # NONE THEN scenes[s].collectionId = collectionId
        ELSE /\ scenes[s].collectionId # NONE
             /\ collections[scenes[s].collectionId].workspaceId = workspaceId
             /\ IF isAdmin THEN TRUE
                ELSE \/ scenes[s].collectionId \in accessibleCollectionIds
                     \/ scenes[s].userId = userId
      found == {s \in SceneIds : scenes[s].exists /\ where(s)}
  IN
  IF membership = NONE THEN [status |-> "Forbidden", list |-> {}]
  ELSE IF collectionId # NONE /\ collectionId \notin accessibleCollectionIds
  THEN [status |-> "Forbidden", list |-> {}]
  ELSE [status |-> "ok",
        list |-> {[id |-> s,
                   canEdit |-> \/ scenes[s].userId = userId
                               \/ isAdmin
                               \/ (scenes[s].collectionId # NONE
                                   /\ scenes[s].collectionId \in writeAccessIds)] : s \in found}]

\* CollectionsService.canAccessCollection
canAccessCollection(collectionId, userId) ==
  LET c == getCollection(collectionId, userId) IN
  IF c.status = "ok" THEN [canRead |-> TRUE, canWrite |-> c.canWrite]
  ELSE [canRead |-> FALSE, canWrite |-> FALSE]

\* A requireWriteAccess with one reason for every denial.
requireWriteAccessOneReason(collectionId, userId) ==
  LET access == canAccessCollection(collectionId, userId) IN
  IF ~access.canRead \/ ~access.canWrite THEN "NoReadAccess" ELSE "ok"

\* CollectionsService.requireWriteAccess: "ok", or the Forbidden reason thrown.
requireWriteAccess(collectionId, userId) ==
  LET access == canAccessCollection(collectionId, userId) IN
  IF ~access.canRead THEN "NoReadAccess"
  ELSE IF ~access.canWrite THEN "NoWriteAccess"
  ELSE "ok"

\* -------------------------------------------------- Membership Resolver
\* roleHierarchy of WorkspacesService.requireRole
roleHierarchy(r) == IF r = "ADMIN" THEN 3 ELSE IF r = "MEMBER" THEN 2 ELSE 1

\* WorkspacesService.requireMembership: the workspace_members row, or the
\* exception thrown.
requireMembership(w, u) ==
  LET membership == getMembership(w, u) IN
  IF membership = NONE THEN [status |-> "Forbidden", membership |-> Null]
  ELSE [status |-> "ok",
        membership |-> Some([workspaceId |-> w, userId |-> u, role |-> membership])]

\* A requireRole that asks for a role above the required one.
requireRoleAbove(w, u, requiredRole) ==
  LET found == requireMembership(w, u) IN
  IF found.status # "ok" THEN found
  ELSE IF roleHierarchy(Val(found.membership).role) <= roleHierarchy(requiredRole)
  THEN [status |-> "Forbidden", membership |-> Null]
  ELSE found

\* WorkspacesService.requireRole: the membership, or the exception thrown.
requireRole(w, u, requiredRole) ==
  LET found == requireMembership(w, u) IN
  IF found.status # "ok" THEN found
  ELSE IF roleHierarchy(Val(found.membership).role) < roleHierarchy(requiredRole)
  THEN [status |-> "Forbidden", membership |-> Null]
  ELSE found

\* A requireSharedWorkspace that lets every workspace pass.
requireSharedWorkspaceAnyType(w) == "ok"

\* WorkspacesService.requireSharedWorkspace
requireSharedWorkspace(w) == IF WorkspaceType(w) = "PERSONAL" THEN "Forbidden" ELSE "ok"

\* workspaceMember.count({workspaceId, role: ADMIN})
adminCount(w) == Cardinality({u \in Users : members[w][u] = "ADMIN"})

\* ------------------------------------------ Collaboration Room Provisioner
\* What a request handler answers: the handler, the scene, "ok" or the
\* exception thrown, whether the body is non-null, the room credentials in the
\* body, the verdict checkAccess gave the caller, and whether the handler
\* wrote room fields.
Response(op, sceneId, status, body, roomId, roomKey, access, wrote) ==
  [op |-> op, sceneId |-> sceneId, status |-> status, body |-> body,
   roomId |-> roomId, roomKey |-> roomKey, access |-> access, wrote |-> wrote]

Failure(op, sceneId, status, access) ==
  Response(op, sceneId, status, FALSE, Null, Null, access, FALSE)

NoVerdict == Verdict(FALSE, FALSE, FALSE)
NoResponse == Failure("none", NONE, "none", NoVerdict)

\* !roomId || !roomKeyEncrypted, negated: the scene has room credentials.
Provisioned(scene) == scene.roomId # Null /\ scene.roomKeyEncrypted # Null

\* An update that persists the room id and drops the encrypted key.
UpdateSceneRoomIdOnly(row, data) ==
  IF data = Null THEN row
  ELSE [row EXCEPT !.roomId = Val(data).roomId,
                   !.collaborationEnabled = IF Val(data).enable THEN TRUE ELSE @]

\* An update that persists the encrypted key and drops the room id.
UpdateSceneKeyOnly(row, data) ==
  IF data = Null THEN row
  ELSE [row EXCEPT !.roomKeyEncrypted = Val(data).roomKeyEncrypted,
                   !.collaborationEnabled = IF Val(data).enable THEN TRUE ELSE @]

\* prisma.scene.update({ where: { id }, data }): data is Null when the handler
\* writes nothing, else the columns it sets; the other columns keep the value
\* the row has when the update runs.
UpdateScene(row, data) ==
  IF data = Null THEN row
  ELSE [row EXCEPT !.roomId = Val(data).roomId,
                   !.roomKeyEncrypted = Val(data).roomKeyEncrypted,
                   !.collaborationEnabled = IF Val(data).enable THEN TRUE ELSE @]

\* A startCollaboration that asks for canView where the handler asks for
\* canCollaborate.
startCollaborationBodyForViewers(id, scene, access, rid, key, iv) ==
  LET op == "startCollaboration" IN
  IF ~scene.exists THEN [resp |-> Failure(op, id, "NotFound", NoVerdict), data |-> Null]
  ELSE IF ~access.canView
  THEN [resp |-> Failure(op, id, "Forbidden", access), data |-> Null]
  ELSE IF ~Provisioned(scene)
  THEN
    LET roomId == IF scene.roomId # Null THEN scene.roomId ELSE Some(rid)
        encrypted == encryptRoomKey(secret, iv, key)
    IN
    IF ~encrypted.ok THEN [resp |-> Failure(op, id, encrypted.error, access), data |-> Null]
    ELSE [resp |-> Response(op, id, "ok", TRUE, roomId, Some(key), access, TRUE),
          data |-> Some([roomId |-> roomId, roomKeyEncrypted |-> encrypted.blob,
                         enable |-> FALSE])]
  ELSE
    LET decrypted == decryptRoomKey(secret, Val(scene.roomKeyEncrypted)) IN
    IF ~decrypted.ok THEN [resp |-> Failure(op, id, decrypted.error, access), data |-> Null]
    ELSE [resp |-> Response(op, id, "ok", TRUE, scene.roomId, decrypted.roomKey, access, FALSE),
          data |-> Null]

\* The body of startCollaboration after its two reads: scene is the row its
\* findUnique returned and access the verdict checkAccess returned; rid, key
\* and iv are what nanoid20(), randomBytes(16) and randomBytes(12) draw. It
\* gives the response and the data of the update it issues.
startCollaborationBody(id, scene, access, rid, key, iv) ==
  LET op == "startCollaboration" IN
  IF ~scene.exists THEN [resp |-> Failure(op, id, "NotFound", NoVerdict), data |-> Null]
  ELSE IF ~access.canCollaborate
  THEN [resp |-> Failure(op, id, "Forbidden", access), data |-> Null]
  ELSE IF ~Provisioned(scene)
  THEN
    LET roomId == IF scene.roomId # Null THEN scene.roomId ELSE Some(rid)
        encrypted == encryptRoomKey(secret, iv, key)
    IN
    IF ~encrypted.ok THEN [resp |-> Failure(op, id, encrypted.error, access), data |-> Null]
    ELSE [resp |-> Response(op, id, "ok", TRUE, roomId, Some(key), access, TRUE),
          data |-> Some([roomId |-> roomId, roomKeyEncrypted |-> encrypted.blob,
                         enable |-> FALSE])]
  ELSE
    LET decrypted == decryptRoomKey(secret, Val(scene.roomKeyEncrypted)) IN
    IF ~decrypted.ok THEN [resp |-> Failure(op, id, decrypted.error, access), data |-> Null]
    ELSE [resp |-> Response(op, id, "ok", TRUE, scene.roomId, decrypted.roomKey, access, FALSE),
          data |-> Null]

\* The body of getSceneBySlug after its reads, likewise; its lazy provisioning
\* also sets collaborationEnabled.
getSceneBySlugBody(workspaceSlug, sceneId, scene, access, rid, key, iv) ==
  LET op == "getSceneBySlug" IN
  IF ~scene.exists \/ scene.collectionId = NONE
  THEN [resp |-> Failure(op, sceneId, "NotFound", NoVerdict), data |-> Null]
  ELSE IF collections[scene.collectionId].workspaceId # workspaceSlug
  THEN [resp |-> Failure(op, sceneId, "NotFound", NoVerdict), data |-> Null]
  ELSE IF ~access.canView
  THEN [resp |-> Failure(op, sceneId, "Forbidden", access), data |-> Null]
  ELSE IF ~access.canCollaborate
  THEN [resp |-> Response(op, sceneId, "ok", TRUE, scene.roomId, Null, access, FALSE),
        data |-> Null]
  ELSE IF ~Provisioned(scene)
  THEN
    LET roomId == IF scene.roomId # Null THEN scene.roomId ELSE Some(rid)
        encrypted == encryptRoomKey(secret, iv, key)
    IN
    IF ~encrypted.ok THEN [resp |-> Failure(op, sceneId, encrypted.error, access), data |-> Null]
    ELSE [resp |-> Response(op, sceneId, "ok", TRUE, roomId, Some(key), access, TRUE),
          data |-> Some([roomId |-> roomId, roomKeyEncrypted |-> encrypted.blob,
                         enable |-> TRUE])]
  ELSE
    LET decrypted == decryptRoomKey(secret, Val(scene.roomKeyEncrypted)) IN
    IF ~decrypted.ok THEN [resp |-> Failure(op, sceneId, decrypted.error, access), data |-> Null]
    ELSE [resp |-> Response(op, sceneId, "ok", TRUE, scene.roomId, decrypted.roomKey, access, FALSE),
          data |-> Null]

\* WorkspaceScenesController.startCollaboration run without interleaving: the
\* response and the scene row it leaves.
startCollaboration(id, userId, rid, key, iv) ==
  LET r == startCollaborationBody(id, scenes[id], checkAccess(id, userId), rid, key, iv) IN
  [resp |-> r.resp, scene |-> UpdateScene(scenes[id], r.data)]

\* WorkspaceScenesController.getSceneBySlug run without interleaving.
getSceneBySlug(workspaceSlug, sceneId, userId, rid, key, iv) ==
  LET r == getSceneBySlugBody(workspaceSlug, sceneId, scenes[sceneId],
                              checkAccess(sceneId, userId), rid, key, iv) IN
  [resp |-> r.resp, scene |-> UpdateScene(scenes[sceneId], r.data)]

\* A getCollaborationInfo that hands the decrypted key to every viewer.
getCollaborationInfoKeyToViewers(id, userId) ==
  LET scene == scenes[id]
      access == checkAccess(id, userId)
      op == "getCollaborationInfo"
  IN
  IF ~scene.exists THEN Failure(op, id, "NotFound", NoVerdict)
  ELSE IF ~access.canView THEN Failure(op, id, "Forbidden", access)
  ELSE IF ~Provisioned(scene)
  THEN Response(op, id, "ok", FALSE, Null, Null, access, FALSE)
  ELSE
    LET decrypted == decryptRoomKey(secret, Val(scene.roomKeyEncrypted)) IN
    IF ~decrypted.ok THEN Failure(op, id, decrypted.error, access)
    ELSE Response(op, id, "ok", TRUE, scene.roomId, decrypted.roomKey, access, FALSE)

\* WorkspaceScenesController.getCollaborationInfo: the response (it writes nothing).
getCollaborationInfo(id, userId) ==
  LET scene == scenes[id]
      access == checkAccess(id, userId)
      op == "getCollaborationInfo"
  IN
  IF ~scene.exists THEN Failure(op, id, "NotFound", NoVerdict)
  ELSE IF ~access.canView THEN Failure(op, id, "Forbidden", access)
  ELSE IF ~Provisioned(scene)
  THEN Response(op, id, "ok", FALSE, Null, Null, access, FALSE)
  ELSE
    LET decrypted == decryptRoomKey(secret, Val(scene.roomKeyEncrypted)) IN
    IF ~decrypted.ok THEN Failure(op, id, decrypted.error, access)
    ELSE Response(op, id, "ok", TRUE, scene.roomId,
                  IF access.canCollaborate THEN decrypted.roomKey ELSE Null,
                  access, FALSE)

\* WorkspaceScenesController.createScene after its storage write: "ok" and
\* the row prisma.scene.create inserts, or the exception thrown before any
\* row is inserted. dto.collectionId is NONE when absent; rid, key and iv are
\* the draws of the auto-collaboration branch.
createScene(collectionId, userId, rid, key, iv) ==
  LET write == IF collectionId = NONE THEN "ok" ELSE requireWriteAccess(collectionId, userId)
      auto == IF collectionId = NONE THEN FALSE
              ELSE /\ WorkspaceType(collections[collectionId].workspaceId) = "SHARED"
                   /\ ~collections[collectionId].isPrivate
      encrypted == encryptRoomKey(secret, iv, key)
      row == [exists |-> TRUE, userId |-> userId, collectionId |-> collectionId,
              collaborationEnabled |-> auto,
              roomId |-> IF auto THEN Some(rid) ELSE Null,
              roomKeyEncrypted |-> IF auto THEN encrypted.blob ELSE Null]
  IN
  IF write # "ok" THEN [status |-> "Forbidden", created |-> FALSE, scene |-> row]
  ELSE IF auto /\ ~encrypted.ok
  THEN [status |-> encrypted.error, created |-> FALSE, scene |-> row]
  ELSE [status |-> "ok", created |-> TRUE, scene |-> row]

\* ------------------------------------------------------------- the store
SceneRow(userId, collectionId) ==
  [exists |-> TRUE, userId |-> userId, collectionId |-> collectionId,
   collaborationEnabled |-> TRUE, roomId |-> Null, roomKeyEncrypted |-> Null]

Grant(t, c, level) == [teamId |-> t, collectionId |-> c, accessLevel |-> level]

\* The server tasks that handle requests concurrently.
Procs == {"p1", "p2"}

NoScene ==
  [exists |-> FALSE, userId |-> NONE, collectionId |-> NONE,
   collaborationEnabled |-> FALSE, roomId |-> Null, roomKeyEncrypted |-> Null]

\* A task that handles no request.
IdleCall ==
  [pc |-> "idle", op |-> "none", workspaceSlug |-> NONE, id |-> NONE, userId |-> NONE,
   scene |-> NoScene, access |-> NoVerdict, resp |-> NoResponse]

\* No invite_links row under a code.
NoLink ==
  [exists |-> FALSE, workspaceId |-> NONE, role |-> NONE, expiresAt |-> Null,
   maxUses |-> Null, uses |-> 0]

\* A task that handles no membership request.
IdleRequest ==
  [pc |-> "idle", op |-> "none", workspaceId |-> NONE, userId |-> NONE, target |-> NONE,
   role |-> NONE, code |-> NONE, found |-> NONE, link |-> NoLink]

\* A store as prisma/seed.ts leaves it, cut down: Acme Corp (SHARED) with an admin, a member
\* and a viewer (Eve is no member of it), Alice's personal workspace, two teams with an EDIT and a VIEW
\* grant on the shared collection (returned by the store in either order), a
\* private collection, and scenes without room credentials (one scene id is still free). The server runs
\* with or without a configured secret.
Seeded ==
  /\ members = [w \in Workspaces |->
                  IF w = "acme"
                  THEN [u \in Users |-> CASE u = "alice" -> "ADMIN"
                                          [] u = "bob" -> "MEMBER"
                                          [] u = "dave" -> "VIEWER"
                                          [] OTHER -> NONE]
                  ELSE [u \in Users |-> IF u = "alice" THEN "ADMIN" ELSE NONE]]
  /\ collections = [c \in CollectionIds |->
                      IF c = "engDocs"
                      THEN [workspaceId |-> "acme", userId |-> "alice", isPrivate |-> FALSE]
                      ELSE [workspaceId |-> "acme", userId |-> "bob", isPrivate |-> TRUE]]
  /\ teamMembers = {<<"engineering", "alice">>, <<"engineering", "bob">>,
                    <<"design", "alice">>, <<"design", "dave">>}
  /\ teamCollections \in {<<Grant("engineering", "engDocs", "EDIT"), Grant("design", "engDocs", "VIEW")>>,
                          <<Grant("design", "engDocs", "VIEW"), Grant("engineering", "engDocs", "EDIT")>>}
  /\ scenes = [s \in SceneIds |->
                 CASE s = "s1" -> SceneRow("alice", "engDocs")
                   [] s = "s2" -> SceneRow("bob", "bobPrivate")
                   [] OTHER -> NoScene]
  /\ secret \in {Null} \cup {Some(s) : s \in 1..MaxSecrets}
  /\ issued = [s \in SceneIds |-> Null]
  /\ calls = [p \in Procs |-> IdleCall]
  /\ teams = [t \in TeamIds |-> IF t = "ops" THEN NONE ELSE "acme"]
  /\ inviteLinks = [c \in InviteCodes |-> NoLink]
  /\ requests = [p \in Procs |-> IdleRequest]

Init == Seeded /\ adminOps = MaxRoomAdminOps

InitAccess == Seeded /\ adminOps = MaxAdminOps

InitRace == Seeded /\ adminOps = 0

\* ------------------------------------------------------- request handlers
\* The handlers draw a room id, a room key and a nonce only on the
\* provisioning path; elsewhere the draws are not made.
Draws(id, userId) ==
  IF scenes[id].exists /\ ~Provisioned(scenes[id]) /\ checkAccess(id, userId).canCollaborate
  THEN RoomIds \X RoomKeys \X Nonces
  ELSE {<<1, 1, 1>>}

\* What issued keeps of a response that carries a room key: its credentials,
\* and how many answers of startCollaboration (one, or two and more) the scene
\* has had since its last move.
Issue(old, resp) ==
  LET before == IF old = Null THEN 0 ELSE Val(old).answers
      answers == IF resp.op # "startCollaboration" THEN before
                 ELSE IF before = 0 THEN 1 ELSE 2
  IN
  IF resp.status = "ok" /\ resp.roomKey # Null
  THEN Some([roomId |-> resp.roomId, roomKey |-> resp.roomKey, answers |-> answers])
  ELSE old

\* POST workspace/scenes/:id/collaborate
StartCollaboration(id, userId) ==
  \E d \in Draws(id, userId) :
    LET r == startCollaboration(id, userId, d[1], d[2], d[3]) IN
    /\ scenes' = [scenes EXCEPT ![id] = r.scene]
    /\ issued' = [issued EXCEPT ![id] = Issue(@, r.resp)]
    /\ UNCHANGED <<members, collections, teamMembers, teamCollections, secret, adminOps, calls, teams, inviteLinks, requests>>

\* POST workspace/scenes/:id/collaborate as the controller of
\* src/workspace/workspace-scenes.controller.ts handles it: the same checks
\* and the same update, with the room key drawn by nanoid40().
StartCollaborationNanoid40(id, userId) ==
  \E d \in IF Draws(id, userId) = {<<1, 1, 1>>} THEN {<<1, 1, 1>>}
            ELSE RoomIds \X LegacyRoomKeys \X Nonces :
    LET r == startCollaboration(id, userId, d[1], d[2], d[3]) IN
    /\ scenes' = [scenes EXCEPT ![id] = r.scene]
    /\ issued' = [issued EXCEPT ![id] = Issue(@, r.resp)]
    /\ UNCHANGED <<members, collections, teamMembers, teamCollections, secret, adminOps, calls, teams, inviteLinks, requests>>

\* GET workspace/by-slug/:workspaceSlug/scenes/:sceneId
GetSceneBySlug(workspaceSlug, sceneId, userId) ==
  \E d \in Draws(sceneId, userId) :
    LET r == getSceneBySlug(workspaceSlug, sceneId, userId, d[1], d[2], d[3]) IN
    /\ scenes' = [scenes EXCEPT ![sceneId] = r.scene]
    /\ issued' = [issued EXCEPT ![sceneId] = Issue(@, r.resp)]
    /\ UNCHANGED <<members, collections, teamMembers, teamCollections, secret, adminOps, calls, teams, inviteLinks, requests>>

\* GET workspace/scenes/:id/collaborate: answers getCollaborationInfo(id, userId)
\* and writes nothing.
GetCollaborationInfo(id, userId) ==
  /\ getCollaborationInfo(id, userId).status \in {"ok", "Forbidden", "NotFound", "Misconfigured", "IntegrityFailure"}
  /\ UNCHANGED vars

\* POST workspace/scenes: the new row takes an id no scene has; a request that
\* throws inserts nothing.
CreateScene(id, collectionId, userId) ==
  /\ ~scenes[id].exists
  /\ \E d \in IF collectionId # NONE /\ requireWriteAccess(collectionId, userId) = "ok"
               THEN RoomIds \X RoomKeys \X Nonces ELSE {<<1, 1, 1>>} :
       LET r == createScene(collectionId, userId, d[1], d[2], d[3]) IN
       scenes' = IF r.created THEN [scenes EXCEPT ![id] = r.scene] ELSE scenes
  /\ UNCHANGED <<members, collections, teamMembers, teamCollections, secret, adminOps, issued, calls, teams, inviteLinks, requests>>

\* The operator changes ROOM_KEY_SECRET / JWT_SECRET (or unsets it) and
\* restarts the server: getRoomKeySecret reads the environment on every call.
Reconfigure(sec) ==
  /\ adminOps > 0
  /\ sec # secret
  /\ secret' = sec
  /\ adminOps' = adminOps - 1
  /\ UNCHANGED <<store, issued, calls, requests>>

\* The slices decryptRoomKey takes from the stored blob.
BlobParts == {"iv", "authTag", "ciphertext"}

\* The blob with a bit flipped in the first byte of one of its slices.
FlipBlob(blob, part) ==
  LET at == CASE part = "iv" -> 1
              [] part = "authTag" -> IvEnd + 1
              [] OTHER -> AuthTagEnd + 1
  IN [blob EXCEPT ![at] = <<@[1], 0 - @[2]>>]

\* No byte of the blob has been flipped.
Intact(blob) == \A i \in 1..Len(blob) : blob[i][2] > 0

\* The stored roomKeyEncrypted of a scene is corrupted or tampered with
\* outside the handlers (the column is an opaque base64 string to the store).
Corrupt(id, part) ==
  /\ adminOps > 0
  /\ scenes[id].exists
  /\ scenes[id].roomKeyEncrypted # Null
  /\ Intact(Val(scenes[id].roomKeyEncrypted))
  /\ scenes' = [scenes EXCEPT ![id].roomKeyEncrypted = Some(FlipBlob(Val(@), part))]
  /\ adminOps' = adminOps - 1
  /\ UNCHANGED <<members, collections, teamMembers, teamCollections, secret, issued, calls, teams, inviteLinks, requests>>

\* The administrative handlers below are enabled when the request is accepted;
\* a request that throws before its first write leaves every table as it is.

\* WorkspacesService.updateMemberRole
UpdateMemberRole(w, adminUserId, target, newRole) ==
  LET member == members[w][target] IN
  /\ adminOps > 0
  /\ requireRole(w, adminUserId, "ADMIN").status = "ok"
  /\ member # NONE
  /\ ~(member = "ADMIN" /\ newRole # "ADMIN" /\ adminCount(w) <= 1)
  /\ members' = [members EXCEPT ![w][target] = newRole]
  /\ adminOps' = adminOps - 1
  /\ UNCHANGED <<collections, teamMembers, teamCollections, scenes, secret, issued, calls, teams, inviteLinks, requests>>

\* WorkspacesService.removeMember; the member's team_members rows go with it
\* (ON DELETE CASCADE).
RemoveMember(w, actingUserId, target) ==
  LET actingMember == members[w][actingUserId]
      targetMember == members[w][target]
  IN
  /\ adminOps > 0
  /\ actingMember # NONE
  /\ targetMember # NONE
  /\ IF target = actingUserId THEN TRUE ELSE actingMember = "ADMIN"
  /\ ~(targetMember = "ADMIN" /\ adminCount(w) <= 1)
  /\ members' = [members EXCEPT ![w][target] = NONE]
  /\ teamMembers' = {tm \in teamMembers : ~(tm[2] = target /\ TeamWorkspace(tm[1]) = w)}
  /\ adminOps' = adminOps - 1
  /\ UNCHANGED <<collections, teamCollections, scenes, secret, issued, calls, teams, inviteLinks, requests>>

\* WorkspacesService.inviteMember
InviteMember(w, adminUserId, target, role) ==
  /\ adminOps > 0
  /\ requireSharedWorkspace(w) = "ok"
  /\ requireRole(w, adminUserId, "ADMIN").status = "ok"
  /\ members[w][target] = NONE
  /\ members' = [members EXCEPT ![w][target] = role]
  /\ adminOps' = adminOps - 1
  /\ UNCHANGED <<collections, teamMembers, teamCollections, scenes, secret, issued, calls, teams, inviteLinks, requests>>

\* dto.maxUses and dto.expiresAt as an administrator may give them (Null when
\* undefined), and the instants new Date() may read.
InviteMaxUses == {0, 1}
InviteExpiries == {1}
Times == {0, 2}

\* WorkspacesService.createInviteLink: nanoid() gives a code no link has.
CreateInviteLink(code, workspaceId, userId, role, expiresAt, maxUses) ==
  /\ adminOps > 0
  /\ ~inviteLinks[code].exists
  /\ requireSharedWorkspace(workspaceId) = "ok"
  /\ requireRole(workspaceId, userId, "ADMIN").status = "ok"
  /\ inviteLinks' = [inviteLinks EXCEPT ![code] =
                       [exists |-> TRUE, workspaceId |-> workspaceId,
                        role |-> IF role = NONE THEN "MEMBER" ELSE role,
                        expiresAt |-> expiresAt, maxUses |-> maxUses, uses |-> 0]]
  /\ adminOps' = adminOps - 1
  /\ UNCHANGED <<members, collections, teamMembers, teamCollections, scenes, secret, issued,
                 calls, teams, requests>>

\* joinViaInviteLink, one step per await. First the link is read and checked
\* against the clock, its counter and the type of its workspace; a request
\* that throws here ends without a write.
FindInviteLink(p, code, userId, now) ==
  LET link == inviteLinks[code] IN
  /\ requests[p].pc = "idle"
  /\ link.exists
  /\ ~(link.expiresAt # Null /\ Val(link.expiresAt) < now)
  /\ ~(link.maxUses # Null /\ Val(link.maxUses) # 0 /\ link.uses >= Val(link.maxUses))
  /\ WorkspaceType(link.workspaceId) # "PERSONAL"
  /\ requests' = [requests EXCEPT ![p] =
                    [IdleRequest EXCEPT !.pc = "linked", !.op = "joinViaInviteLink",
                                        !.code = code, !.userId = userId,
                                        !.workspaceId = link.workspaceId, !.link = link]]
  /\ UNCHANGED <<store, secret, adminOps, issued, calls>>

\* const existingMember = await prisma.workspaceMember.findUnique(...): a
\* caller who is a member already is answered without a write.
FindExistingMember(p) ==
  LET r == requests[p] IN
  /\ r.pc = "linked"
  /\ requests' = [requests EXCEPT ![p] =
                    IF members[r.workspaceId][r.userId] # NONE THEN IdleRequest
                    ELSE [r EXCEPT !.pc = "joining"]]
  /\ UNCHANGED <<store, secret, adminOps, issued, calls>>

\* prisma.$transaction([workspaceMember.create, inviteLink.update]): the
\* membership is created with the role the link had when it was read and
\* the counter of the stored link is incremented; a membership created in
\* between violates the unique index and the transaction is rolled back.
JoinTransaction(p) ==
  LET r == requests[p] IN
  /\ r.pc = "joining"
  /\ requests' = [requests EXCEPT ![p] = IdleRequest]
  /\ IF members[r.workspaceId][r.userId] # NONE \/ ~inviteLinks[r.code].exists
     THEN UNCHANGED <<members, inviteLinks>>
     ELSE /\ members' = [members EXCEPT ![r.workspaceId][r.userId] = r.link.role]
          /\ inviteLinks' = [inviteLinks EXCEPT ![r.code].uses = @ + 1]
  /\ UNCHANGED <<collections, teamMembers, teamCollections, scenes, secret, adminOps, issued,
                 calls, teams>>

\* updateMemberRole and removeMember handled by task p, one step per await.
\* The first read: requireRole(workspaceId, adminUserId, ADMIN) of
\* updateMemberRole, or the findUnique of the acting member of removeMember;
\* a request that throws here ends without a write.
BeginMemberRequest(p, op, workspaceId, userId, target, newRole) ==
  /\ requests[p].pc = "idle"
  /\ IF op = "updateMemberRole"
     THEN requireRole(workspaceId, userId, "ADMIN").status = "ok"
     ELSE members[workspaceId][userId] # NONE
  /\ requests' = [requests EXCEPT ![p] =
                    [IdleRequest EXCEPT !.pc = "authorized", !.op = op,
                                        !.workspaceId = workspaceId, !.userId = userId,
                                        !.target = target, !.role = newRole,
                                        !.found = members[workspaceId][userId]]]
  /\ UNCHANGED <<store, secret, adminOps, issued, calls>>

\* The findUnique of the member to change: NotFound when there is none,
\* Forbidden when a non-admin removes another member; the admins are counted
\* next only when the member is an ADMIN who is demoted or removed.
FindMember(p) ==
  LET r == requests[p]
      member == members[r.workspaceId][r.target]
      refused == IF member = NONE THEN TRUE
                 ELSE r.op = "removeMember" /\ r.target # r.userId /\ r.found # "ADMIN"
      guarded == IF r.op = "updateMemberRole" THEN member = "ADMIN" /\ r.role # "ADMIN"
                 ELSE member = "ADMIN"
  IN
  /\ r.pc = "authorized"
  /\ requests' = [requests EXCEPT ![p] =
                    IF refused THEN IdleRequest
                    ELSE [r EXCEPT !.pc = IF guarded THEN "counting" ELSE "writing"]]
  /\ UNCHANGED <<store, secret, adminOps, issued, calls>>

\* const adminCount = await prisma.workspaceMember.count(...): BadRequest
\* when the count is 1 or less.
CountAdmins(p) ==
  LET r == requests[p] IN
  /\ r.pc = "counting"
  /\ requests' = [requests EXCEPT ![p] =
                    IF adminCount(r.workspaceId) <= 1 THEN IdleRequest
                    ELSE [r EXCEPT !.pc = "writing"]]
  /\ UNCHANGED <<store, secret, adminOps, issued, calls>>

\* prisma.workspaceMember.update / delete where { id: memberId }: it throws
\* when the row is gone; a deleted member's team_members rows go with it.
WriteMember(p) ==
  LET r == requests[p] IN
  /\ r.pc = "writing"
  /\ requests' = [requests EXCEPT ![p] = IdleRequest]
  /\ IF members[r.workspaceId][r.target] = NONE
     THEN UNCHANGED <<members, teamMembers>>
     ELSE IF r.op = "updateMemberRole"
     THEN /\ members' = [members EXCEPT ![r.workspaceId][r.target] = r.role]
          /\ UNCHANGED teamMembers
     ELSE /\ members' = [members EXCEPT ![r.workspaceId][r.target] = NONE]
          /\ teamMembers' = {tm \in teamMembers :
                               ~(tm[2] = r.target /\ TeamWorkspace(tm[1]) = r.workspaceId)}
  /\ UNCHANGED <<collections, teamCollections, scenes, secret, adminOps, issued, calls,
                 teams, inviteLinks>>

\* The sequences without repetition over a set (the orders a dto lists ids in).
RECURSIVE Orders(_)
Orders(S) ==
  IF S = {} THEN {<<>>}
  ELSE UNION {{<<x>> \o o : o \in Orders(S \ {x})} : x \in S}

Range(seq) == {seq[i] : i \in 1..Len(seq)}

\* TeamsService.updateTeam. dto.memberIds and dto.collectionIds are Null when
\* undefined. The members are replaced before the collection ids are
\* validated, and the grants are re-created with level EDIT after the rows
\* already stored.
UpdateTeam(teamId, userId, memberIds, collectionIds) ==
  LET w == TeamWorkspace(teamId)
      membersOk == IF memberIds = Null THEN TRUE
                   ELSE \A u \in Val(memberIds) : members[w][u] # NONE
      collectionsOk == IF collectionIds = Null THEN TRUE
                       ELSE \A c \in Range(Val(collectionIds)) : collections[c].workspaceId = w
      newMembers == IF memberIds = Null THEN teamMembers
                    ELSE {tm \in teamMembers : tm[1] # teamId}
                         \cup {<<teamId, u>> : u \in Val(memberIds)}
      newGrants == IF collectionIds = Null THEN teamCollections
                   ELSE SelectSeq(teamCollections, LAMBDA tc : tc.teamId # teamId)
                        \o [i \in 1..Len(Val(collectionIds)) |->
                              Grant(teamId, Val(collectionIds)[i], "EDIT")]
  IN
  /\ adminOps > 0
  /\ teams[teamId] # NONE
  /\ requireSharedWorkspace(w) = "ok"
  /\ requireRole(w, userId, "ADMIN").status = "ok"
  /\ membersOk
  /\ teamMembers' = newMembers
  /\ teamCollections' = IF collectionsOk THEN newGrants ELSE teamCollections
  /\ adminOps' = adminOps - 1
  /\ UNCHANGED <<members, collections, scenes, secret, issued, calls, teams, inviteLinks, requests>>

\* TeamsService.createTeam: the new row takes an id no team has; the members
\* and the grants (level EDIT) are created with it.
CreateTeam(teamId, workspaceId, userId, memberIds, collectionIds) ==
  /\ adminOps > 0
  /\ teams[teamId] = NONE
  /\ requireSharedWorkspace(workspaceId) = "ok"
  /\ requireRole(workspaceId, userId, "ADMIN").status = "ok"
  /\ \A u \in memberIds : members[workspaceId][u] # NONE
  /\ \A c \in Range(collectionIds) : collections[c].workspaceId = workspaceId
  /\ teams' = [teams EXCEPT ![teamId] = workspaceId]
  /\ teamMembers' = teamMembers \cup {<<teamId, u>> : u \in memberIds}
  /\ teamCollections' = teamCollections
                          \o [i \in 1..Len(collectionIds) |-> Grant(teamId, collectionIds[i], "EDIT")]
  /\ adminOps' = adminOps - 1
  /\ UNCHANGED <<members, collections, scenes, secret, issued, calls, inviteLinks, requests>>

\* TeamsService.deleteTeam; the team's team_members and team_collections rows
\* go with it (ON DELETE CASCADE).
DeleteTeam(teamId, userId) ==
  /\ adminOps > 0
  /\ teams[teamId] # NONE
  /\ requireSharedWorkspace(teams[teamId]) = "ok"
  /\ requireRole(teams[teamId], userId, "ADMIN").status = "ok"
  /\ teams' = [teams EXCEPT ![teamId] = NONE]
  /\ teamMembers' = {tm \in teamMembers : tm[1] # teamId}
  /\ teamCollections' = SelectSeq(teamCollections, LAMBDA tc : tc.teamId # teamId)
  /\ adminOps' = adminOps - 1
  /\ UNCHANGED <<members, collections, scenes, secret, issued, calls, inviteLinks, requests>>

\* CollectionsService.updateCollection with dto.isPrivate given.
UpdateCollection(collectionId, userId, isPrivate) ==
  LET collection == collections[collectionId]
      membership == getMembership(collection.workspaceId, userId)
  IN
  /\ adminOps > 0
  /\ membership # NONE
  /\ IF membership = "ADMIN" THEN TRUE ELSE collection.userId = userId
  /\ collections' = [collections EXCEPT ![collectionId].isPrivate = isPrivate]
  /\ adminOps' = adminOps - 1
  /\ UNCHANGED <<members, teamMembers, teamCollections, scenes, secret, issued, calls, teams, inviteLinks, requests>>

\* A move that hands the scenes to the caller and leaves their room fields.
updateManyScenesKeepRoom(collectionId, userId, disableCollab) ==
  [s \in SceneIds |->
     IF scenes[s].exists /\ scenes[s].collectionId = collectionId
     THEN [scenes[s] EXCEPT !.userId = userId]
     ELSE scenes[s]]

\* prisma.scene.updateMany({ where: { collectionId }, data }) of
\* moveCollectionToWorkspace: undefined leaves a column as it is.
updateManyScenes(collectionId, userId, disableCollab) ==
  [s \in SceneIds |->
     IF scenes[s].exists /\ scenes[s].collectionId = collectionId
     THEN IF disableCollab
          THEN [scenes[s] EXCEPT !.userId = userId, !.roomId = Null,
                                 !.roomKeyEncrypted = Null,
                                 !.collaborationEnabled = FALSE]
          ELSE [scenes[s] EXCEPT !.userId = userId]
     ELSE scenes[s]]

\* WorkspaceScenesController.moveCollectionToWorkspace
MoveCollectionToWorkspace(collectionId, targetWorkspaceId, userId) ==
  LET targetMembership == getMembership(targetWorkspaceId, userId)
      sourceAccess == getCollection(collectionId, userId)
      disableCollab == WorkspaceType(targetWorkspaceId) = "PERSONAL"
      moved == {s \in SceneIds : scenes[s].exists /\ scenes[s].collectionId = collectionId}
  IN
  /\ adminOps > 0
  /\ targetMembership # NONE
  /\ targetMembership # "VIEWER"
  /\ sourceAccess.status = "ok"
  /\ sourceAccess.canWrite
  /\ teamCollections' = SelectSeq(teamCollections, LAMBDA tc : tc.collectionId # collectionId)
  /\ collections' = [collections EXCEPT ![collectionId].workspaceId = targetWorkspaceId,
                                        ![collectionId].userId = userId]
  /\ scenes' = updateManyScenes(collectionId, userId, disableCollab)
  /\ issued' = [s \in SceneIds |-> IF s \in moved THEN Null ELSE issued[s]]
  /\ adminOps' = adminOps - 1
  /\ UNCHANGED <<members, teamMembers, secret, calls, teams, inviteLinks, requests>>

\* WorkspaceScenesController.moveScene; dto.collectionId is NONE for null.
MoveScene(id, collectionId, userId) ==
  LET scene == scenes[id]
      access == checkAccess(id, userId)
  IN
  /\ adminOps > 0
  /\ scene.exists
  /\ access.canEdit
  /\ IF collectionId = NONE THEN TRUE ELSE requireWriteAccess(collectionId, userId) = "ok"
  /\ scenes' = [scenes EXCEPT ![id].collectionId = collectionId]
  /\ issued' = [issued EXCEPT ![id] = Null]
  /\ adminOps' = adminOps - 1
  /\ UNCHANGED <<members, collections, teamMembers, teamCollections, secret, calls, teams, inviteLinks, requests>>

\* WorkspaceScenesController.updateScene; dto.collectionId is Null when
\* undefined, Some(NONE) for null. The update writes title, thumbnail and
\* collectionId, and no room field.
UpdateSceneHandler(id, userId, dtoCollectionId) ==
  LET scene == scenes[id]
      access == checkAccess(id, userId)
      changing == IF dtoCollectionId = Null THEN FALSE
                  ELSE Val(dtoCollectionId) # NONE /\ Val(dtoCollectionId) # scene.collectionId
  IN
  /\ adminOps > 0
  /\ scene.exists
  /\ access.canEdit
  /\ IF changing THEN requireWriteAccess(Val(dtoCollectionId), userId) = "ok" ELSE TRUE
  /\ scenes' = [scenes EXCEPT ![id].collectionId =
                   IF dtoCollectionId # Null THEN Val(dtoCollectionId) ELSE scene.collectionId]
  /\ issued' = [issued EXCEPT ![id] = Null]
  /\ adminOps' = adminOps - 1
  /\ UNCHANGED <<members, collections, teamMembers, teamCollections, secret, calls, teams,
                 inviteLinks, requests>>

\* WorkspaceScenesController.duplicateScene; dto.collectionId is NONE when
\* absent. The copy takes an id no scene has, belongs to the caller and has
\* the column defaults in its room fields.
DuplicateScene(newId, id, userId, dtoCollectionId) ==
  LET scene == scenes[id]
      access == checkAccess(id, userId)
      targetCollectionId == IF dtoCollectionId # NONE THEN dtoCollectionId ELSE scene.collectionId
  IN
  /\ ~scenes[newId].exists
  /\ scene.exists
  /\ access.canView
  /\ IF targetCollectionId # NONE THEN requireWriteAccess(targetCollectionId, userId) = "ok"
     ELSE TRUE
  /\ scenes' = [scenes EXCEPT ![newId] = SceneRow(userId, targetCollectionId)]
  /\ UNCHANGED <<members, collections, teamMembers, teamCollections, secret, adminOps, issued,
                 calls, teams, inviteLinks, requests>>

\* ------------------------------------------------- interleaved handlers
\* A provisioning request handled by task p, one step per await.

\* const scene = await this.prisma.scene.findUnique({ where: { id } })
FindScene(p, op, workspaceSlug, id, userId) ==
  /\ calls[p].pc = "idle"
  /\ calls' = [calls EXCEPT ![p] = [IdleCall EXCEPT !.pc = "found", !.op = op,
                                                     !.workspaceSlug = workspaceSlug,
                                                     !.id = id, !.userId = userId,
                                                     !.scene = scenes[id]]]
  /\ UNCHANGED <<store, secret, adminOps, issued, requests>>

\* const access = await this.sceneAccessService.checkAccess(id, user.id)
CheckAccess(p) ==
  /\ calls[p].pc = "found"
  /\ calls' = [calls EXCEPT ![p].pc = "checked",
                            ![p].access = checkAccess(calls[p].id, calls[p].userId)]
  /\ UNCHANGED <<store, secret, adminOps, issued, requests>>

\* The draws of task p, made only on the provisioning path.
CallDraws(p) ==
  IF calls[p].scene.exists /\ ~Provisioned(calls[p].scene) /\ calls[p].access.canCollaborate
  THEN RoomIds \X RoomKeys \X Nonces
  ELSE {<<1, 1, 1>>}

\* The rest of the handler: from the row read and the verdict obtained, the
\* unconditional await this.prisma.scene.update(...) and the response.
Respond(p) ==
  /\ calls[p].pc = "checked"
  /\ \E d \in CallDraws(p) :
       LET c == calls[p]
           r == IF c.op = "startCollaboration"
                THEN startCollaborationBody(c.id, c.scene, c.access, d[1], d[2], d[3])
                ELSE getSceneBySlugBody(c.workspaceSlug, c.id, c.scene, c.access, d[1], d[2], d[3])
       IN
       /\ scenes' = [scenes EXCEPT ![c.id] = UpdateScene(scenes[c.id], r.data)]
       /\ calls' = [calls EXCEPT ![p].pc = "done", ![p].resp = r.resp]
       /\ issued' = [issued EXCEPT ![c.id] = Issue(@, r.resp)]
  /\ UNCHANGED <<members, collections, teamMembers, teamCollections, secret, adminOps, teams, inviteLinks, requests>>

\* ---------------------------------------------------------- specification
\* The requests that change memberships, teams, grants and collections.
AdminStep ==
  \/ \E w \in Workspaces, a \in Users, u \in Users, r \in Roles : UpdateMemberRole(w, a, u, r)
  \/ \E w \in Workspaces, a \in Users, u \in Users : RemoveMember(w, a, u)
  \/ \E w \in Workspaces, a \in Users, u \in Users, r \in Roles : InviteMember(w, a, u, r)
  \/ \E t \in TeamIds, a \in Users,
        m \in {Null} \cup {Some(S) : S \in SUBSET Users},
        c \in {Null} \cup {Some(o) : o \in UNION {Orders(S) : S \in SUBSET CollectionIds}} :
        UpdateTeam(t, a, m, c)
  \/ \E c \in CollectionIds, u \in Users, p \in BOOLEAN : UpdateCollection(c, u, p)
  \/ \E c \in CollectionIds, w \in Workspaces, u \in Users : MoveCollectionToWorkspace(c, w, u)
  \/ \E id \in SceneIds, c \in CollectionIds \cup {NONE}, u \in Users : MoveScene(id, c, u)

\* The requests of the collaboration-room lifecycle, each handled without
\* another request in between.
RoomStep ==
  \/ \E id \in SceneIds, u \in Users : StartCollaboration(id, u)
  \/ \E w \in Workspaces, id \in SceneIds, u \in Users : GetSceneBySlug(w, id, u)
  \/ \E id \in SceneIds, u \in Users : GetCollaborationInfo(id, u)

Next == AdminStep \/ RoomStep

Spec == Init /\ [][Next]_vars

\* The access-control layer alone: the store under its administrative requests.
NextAccess == AdminStep

SpecAccess == InitAccess /\ [][NextAccess]_vars

\* Provisioning requests handled concurrently: the tasks interleave at their
\* awaits.
NextRace ==
  \/ \E p \in Procs, id \in SceneIds, u \in Users : FindScene(p, "startCollaboration", NONE, id, u)
  \/ \E p \in Procs, w \in Workspaces, id \in SceneIds, u \in Users :
        FindScene(p, "getSceneBySlug", w, id, u)
  \/ \E p \in Procs : CheckAccess(p)
  \/ \E p \in Procs : Respond(p)

SpecRace == InitRace /\ [][NextRace]_vars

\* The secrets a reconfiguration can install: those a deployment starts with
\* and one it did not start with.
RotatedSecrets == 1..(MaxSecrets + 1)

\* The room lifecycle with scene creation, under a change of secret or a
\* damaged blob.
NextCrypto ==
  \/ RoomStep
  \/ \E id \in SceneIds, c \in CollectionIds \cup {NONE}, u \in Users : CreateScene(id, c, u)
  \/ \E sec \in {Null} \cup {Some(s) : s \in RotatedSecrets} : Reconfigure(sec)
  \/ \E id \in SceneIds, part \in BlobParts : Corrupt(id, part)

SpecCrypto == Init /\ [][NextCrypto]_vars

\* Every handler that writes room fields, with the provisioning requests of
\* two tasks interleaved at their awaits (a task may stop after any step).
NextLife ==
  \/ \E p \in Procs, id \in SceneIds, u \in {"alice", "bob"} :
        FindScene(p, "startCollaboration", NONE, id, u)
  \/ \E p \in Procs : CheckAccess(p)
  \/ \E p \in Procs : Respond(p)
  \/ \E id \in SceneIds, c \in CollectionIds \cup {NONE}, u \in Users : CreateScene(id, c, u)
  \/ \E c \in CollectionIds, w \in Workspaces, u \in Users : MoveCollectionToWorkspace(c, w, u)

SpecLife == Init /\ [][NextLife]_vars

\* The requests that create and destroy teams and grants.
NextTeams ==
  \/ \E t \in TeamIds, w \in Workspaces, a \in Users, m \in SUBSET Users,
        c \in UNION {Orders(S) : S \in SUBSET CollectionIds} : CreateTeam(t, w, a, m, c)
  \/ \E t \in TeamIds, a \in Users,
        m \in {Null} \cup {Some(S) : S \in SUBSET Users},
        c \in {Null} \cup {Some(o) : o \in UNION {Orders(S) : S \in SUBSET CollectionIds}} :
        UpdateTeam(t, a, m, c)
  \/ \E t \in TeamIds, a \in Users : DeleteTeam(t, a)
  \/ \E c \in CollectionIds, w \in Workspaces, u \in Users : MoveCollectionToWorkspace(c, w, u)

SpecTeams == InitAccess /\ [][NextTeams]_vars

\* Invitations: members invited directly, invite links created and used by
\* concurrent requests, teams created, members leaving.
NextInvites ==
  \/ \E w \in Workspaces, a \in Users, u \in Users, r \in Roles : InviteMember(w, a, u, r)
  \/ \E code \in InviteCodes, w \in Workspaces, a \in Users, r \in {NONE, "VIEWER"},
        e \in {Null} \cup {Some(x) : x \in InviteExpiries},
        m \in {Null} \cup {Some(x) : x \in InviteMaxUses} : CreateInviteLink(code, w, a, r, e, m)
  \/ \E p \in Procs, code \in InviteCodes, u \in Users, now \in Times : FindInviteLink(p, code, u, now)
  \/ \E p \in Procs : FindExistingMember(p)
  \/ \E p \in Procs : JoinTransaction(p)
  \/ \E t \in TeamIds, w \in Workspaces, a \in Users :
        \E m \in {{}, {a}} : CreateTeam(t, w, a, m, <<>>)
  \/ \E w \in Workspaces, a \in Users, u \in Users : RemoveMember(w, a, u)

\* Rooms play no part in invitations: the server secret is left unset and
\* the grants are taken in one of their two orders.
InitInvites == InitAccess /\ secret = Null /\ teamCollections[1].teamId = "engineering"

SpecInvites == InitInvites /\ [][NextInvites]_vars

\* The requests that place scenes in collections and collections in
\* workspaces, with room provisioning and a change of roles.
NextMoves ==
  \/ \E id \in SceneIds, c \in CollectionIds \cup {NONE}, u \in Users : CreateScene(id, c, u)
  \/ \E id \in SceneIds, u \in Users : StartCollaboration(id, u)
  \/ \E id \in SceneIds, c \in CollectionIds \cup {NONE}, u \in Users : MoveScene(id, c, u)
  \/ \E id \in SceneIds, u \in Users,
        c \in {Null} \cup {Some(x) : x \in CollectionIds \cup {NONE}} : UpdateSceneHandler(id, u, c)
  \/ \E n \in SceneIds, id \in SceneIds, u \in Users, c \in CollectionIds \cup {NONE} :
        DuplicateScene(n, id, u, c)
  \/ \E c \in CollectionIds, w \in Workspaces, u \in Users : MoveCollectionToWorkspace(c, w, u)
  \/ \E w \in Workspaces, a \in Users, u \in Users, r \in Roles : UpdateMemberRole(w, a, u, r)

\* The server runs with a secret, and the grants are taken in one of their
\* two orders.
InitMoves == InitAccess /\ secret # Null /\ teamCollections[1].teamId = "engineering"

SpecMoves == InitMoves /\ [][NextMoves]_vars

\* Role changes and removals handled concurrently: the requests of two
\* members of the shared workspace about each other and themselves.
NextAdmins ==
  \/ \E p \in Procs, a \in {"alice", "bob"}, u \in {"alice", "bob"}, r \in {"ADMIN", "MEMBER"} :
        BeginMemberRequest(p, "updateMemberRole", "acme", a, u, r)
  \/ \E p \in Procs, a \in {"alice", "bob"}, u \in {"alice", "bob"} :
        BeginMemberRequest(p, "removeMember", "acme", a, u, NONE)
  \/ \E p \in Procs : FindMember(p)
  \/ \E p \in Procs : CountAdmins(p)
  \/ \E p \in Procs : WriteMember(p)

InitAdmins == InitRace /\ secret = Null /\ teamCollections[1].teamId = "engineering"

SpecAdmins == InitAdmins /\ [][NextAdmins]_vars

\* The room lifecycle of a deployment whose scenes were also served by the
\* startCollaboration of src/workspace/workspace-scenes.controller.ts.
NextKeys ==
  \/ RoomStep
  \/ \E id \in SceneIds, u \in Users : StartCollaborationNanoid40(id, u)
  \/ \E id \in SceneIds, c \in CollectionIds \cup {NONE}, u \in Users : CreateScene(id, c, u)

SpecKeys == Init /\ [][NextKeys]_vars

\* ------------------------------------------------------------ properties
\* C1: for every scene, user and store state, checkAccess returns the triple
\* of the first matching row of the decision table read top to bottom: no
\* collection -> (sceneOwner, sceneOwner, false); no membership -> all false;
\* PERSONAL -> (sceneOwner, sceneOwner, false); ADMIN -> (true, true,
\* collaborationEnabled); private collection -> (collectionOwner,
\* collectionOwner and role # VIEWER, collectionOwner and
\* collaborationEnabled); a team grant -> (true, grant = EDIT and role #
\* VIEWER, collaborationEnabled and canEdit), the grant being the merged level
\* of the caller's teams on the collection; no team grant -> all false.
C1_DecisionTable ==
  \A s \in SceneIds, u \in Users :
    LET scene == scenes[s]
        c == scene.collectionId
        w == collections[c].workspaceId
        role == members[w][u]
        sceneOwner == scene.userId = u
        collectionOwner == collections[c].userId = u
        levels == {teamCollections[i].accessLevel :
                     i \in {j \in 1..Len(teamCollections) :
                              /\ teamCollections[j].collectionId = c
                              /\ <<teamCollections[j].teamId, u>> \in teamMembers
                              /\ TeamWorkspace(teamCollections[j].teamId) = w}}
        grant == IF "EDIT" \in levels THEN "EDIT" ELSE "VIEW"
        canEdit == grant = "EDIT" /\ role # "VIEWER"
        row == IF c = NONE THEN Verdict(sceneOwner, sceneOwner, FALSE)
               ELSE IF role = NONE THEN Verdict(FALSE, FALSE, FALSE)
               ELSE IF WorkspaceType(w) = "PERSONAL" THEN Verdict(sceneOwner, sceneOwner, FALSE)
               ELSE IF role = "ADMIN" THEN Verdict(TRUE, TRUE, scene.collaborationEnabled)
               ELSE IF collections[c].isPrivate
               THEN Verdict(collectionOwner, collectionOwner /\ role # "VIEWER",
                            collectionOwner /\ scene.collaborationEnabled)
               ELSE IF levels # {}
               THEN Verdict(TRUE, canEdit, scene.collaborationEnabled /\ canEdit)
               ELSE Verdict(FALSE, FALSE, FALSE)
    IN scene.exists => checkAccess(s, u) = row

\* C2: in every reachable state and for every scene and user, the verdict of
\* checkAccess has canCollaborate only with canEdit.
C2_CollaborateImpliesEdit ==
  \A s \in SceneIds, u \in Users :
    checkAccess(s, u).canCollaborate => checkAccess(s, u).canEdit

\* C3: when two callers with canCollaborate concurrently request provisioning
\* of the same scene that each of them read Unprovisioned, exactly one
\* provisioning write takes effect and both are answered the same roomId and
\* roomKey, the credentials persisted on the scene.
C3_ConcurrentProvisioningConverges ==
  \A p \in Procs, q \in Procs :
    LET a == calls[p]
        b == calls[q]
        row == scenes[a.id]
    IN
    (/\ p # q
     /\ a.pc = "done" /\ b.pc = "done"
     /\ a.id = b.id
     /\ ~Provisioned(a.scene) /\ ~Provisioned(b.scene)
     /\ a.access.canCollaborate /\ b.access.canCollaborate
     /\ a.resp.status = "ok" /\ b.resp.status = "ok")
    => /\ a.resp.roomId = b.resp.roomId
       /\ a.resp.roomKey = b.resp.roomKey
       /\ ~(a.resp.wrote /\ b.resp.wrote)
       /\ Provisioned(row)
       /\ row.roomId = a.resp.roomId
       /\ decryptRoomKey(secret, Val(row.roomKeyEncrypted)).roomKey = a.resp.roomKey

\* C4: getCollaborationInfo on a Provisioned scene returns the roomId to
\* every caller with canView, and the decrypted room key exactly to the
\* callers with canCollaborate (null to the others); and none of
\* startCollaboration, getSceneBySlug and getCollaborationInfo returns a room
\* key to a caller whose verdict has canCollaborate false.
C4_RoomKeyOnlyToCollaborators ==
  \A s \in SceneIds, u \in Users :
    LET access == checkAccess(s, u)
        info == getCollaborationInfo(s, u)
    IN
    /\ (Provisioned(scenes[s]) /\ access.canView)
       => /\ info.status = "ok"
          /\ info.roomId # Null
          /\ info.roomId = scenes[s].roomId
          /\ IF access.canCollaborate
             THEN /\ info.roomKey # Null
                  /\ issued[s] # Null => info.roomKey = Val(issued[s]).roomKey
             ELSE info.roomKey = Null
    /\ ~access.canCollaborate
       => /\ info.roomKey = Null
          /\ \A d \in RoomIds \X RoomKeys \X Nonces :
               /\ startCollaboration(s, u, d[1], d[2], d[3]).resp.roomKey = Null
               /\ \A w \in Workspaces :
                    getSceneBySlug(w, s, u, d[1], d[2], d[3]).resp.roomKey = Null

\* A provisioned scene that one caller may view but not collaborate on and is
\* told the room id without the key, while a collaborator is told the key.
C4_Witness ==
  \E s \in SceneIds, u \in Users, v \in Users :
    /\ Provisioned(scenes[s])
    /\ checkAccess(s, u).canView /\ ~checkAccess(s, u).canCollaborate
    /\ getCollaborationInfo(s, u).status = "ok"
    /\ getCollaborationInfo(s, u).roomId = scenes[s].roomId
    /\ getCollaborationInfo(s, u).roomKey = Null
    /\ checkAccess(s, v).canCollaborate
    /\ getCollaborationInfo(s, v).roomKey # Null

\* C5: for every scene whose collection belongs to a PERSONAL workspace and
\* every user, checkAccess returns canCollaborate false, whatever the scene's
\* collaborationEnabled flag.
C5_PersonalNeverCollaborates ==
  \A s \in SceneIds, u \in Users :
    (/\ scenes[s].exists
     /\ scenes[s].collectionId # NONE
     /\ WorkspaceType(collections[scenes[s].collectionId].workspaceId) = "PERSONAL")
    => ~checkAccess(s, u).canCollaborate

\* A collaboration-enabled scene in a PERSONAL workspace whose owner, the
\* workspace's ADMIN, may view and edit it and may not collaborate.
C5_Witness ==
  \E s \in SceneIds, u \in Users :
    /\ scenes[s].collectionId # NONE
    /\ WorkspaceType(collections[scenes[s].collectionId].workspaceId) = "PERSONAL"
    /\ scenes[s].collaborationEnabled
    /\ scenes[s].userId = u
    /\ members[collections[scenes[s].collectionId].workspaceId][u] = "ADMIN"
    /\ checkAccess(s, u) = Verdict(TRUE, TRUE, FALSE)

\* C6: for every scene in a private collection and every caller who is
\* neither the collection's owner nor an ADMIN of its workspace, checkAccess
\* returns canView false and canEdit false, whatever grants the caller's teams
\* hold on the collection.
C6_PrivateCollectionHidden ==
  \A s \in SceneIds, u \in Users :
    LET c == scenes[s].collectionId IN
    (/\ scenes[s].exists
     /\ c # NONE
     /\ collections[c].isPrivate
     /\ collections[c].userId # u
     /\ members[collections[c].workspaceId][u] # "ADMIN")
    => ~checkAccess(s, u).canView /\ ~checkAccess(s, u).canEdit

\* A private collection granted to a team of a member who is neither its owner
\* nor an ADMIN, and who is refused its scene.
C6_Witness ==
  \E s \in SceneIds, u \in Users, i \in 1..Len(teamCollections) :
    LET c == scenes[s].collectionId IN
    /\ c # NONE
    /\ collections[c].isPrivate
    /\ collections[c].userId # u
    /\ members[collections[c].workspaceId][u] \in {"MEMBER", "VIEWER"}
    /\ teamCollections[i].collectionId = c
    /\ <<teamCollections[i].teamId, u>> \in teamMembers
    /\ checkAccess(s, u) = Verdict(FALSE, FALSE, FALSE)

\* C7: in every reachable state, a user whose role in the scene's workspace is
\* VIEWER gets canEdit false from checkAccess, also when a team of the user
\* holds an EDIT grant on the scene's collection or the user owns it.
C7_ViewerNeverEdits ==
  \A s \in SceneIds, u \in Users :
    LET c == scenes[s].collectionId IN
    (/\ scenes[s].exists
     /\ c # NONE
     /\ members[collections[c].workspaceId][u] = "VIEWER")
    => ~checkAccess(s, u).canEdit

\* A VIEWER in a team that holds an EDIT grant on a scene's collection, who may
\* view the scene and not edit it; and a VIEWER who owns a scene's collection.
C7_Witness ==
  /\ \E s \in SceneIds, u \in Users, i \in 1..Len(teamCollections) :
       LET c == scenes[s].collectionId IN
       /\ c # NONE
       /\ ~collections[c].isPrivate
       /\ members[collections[c].workspaceId][u] = "VIEWER"
       /\ teamCollections[i].collectionId = c
       /\ teamCollections[i].accessLevel = "EDIT"
       /\ <<teamCollections[i].teamId, u>> \in teamMembers
       /\ checkAccess(s, u).canView /\ ~checkAccess(s, u).canEdit
  /\ \E s \in SceneIds, u \in Users :
       LET c == scenes[s].collectionId IN
       /\ c # NONE
       /\ collections[c].userId = u
       /\ members[collections[c].workspaceId][u] = "VIEWER"
       /\ ~checkAccess(s, u).canEdit

\* C8: a member of a SHARED workspace who is neither ADMIN nor VIEWER and
\* belongs to two teams, one granting VIEW and one granting EDIT on the same
\* non-private collection, gets canEdit true from checkAccess on a scene of
\* that collection, in whatever order the store returns the two grants.
C8_MergedGrantInCheckAccess ==
  \A s \in SceneIds, u \in Users :
    LET c == scenes[s].collectionId
        w == collections[c].workspaceId
        levels == {teamCollections[i].accessLevel :
                     i \in {j \in 1..Len(teamCollections) :
                              /\ teamCollections[j].collectionId = c
                              /\ <<teamCollections[j].teamId, u>> \in teamMembers
                              /\ TeamWorkspace(teamCollections[j].teamId) = w}}
    IN
    (/\ scenes[s].exists
     /\ c # NONE
     /\ WorkspaceType(w) = "SHARED"
     /\ members[w][u] = "MEMBER"
     /\ ~collections[c].isPrivate
     /\ levels = {"VIEW", "EDIT"})
    => checkAccess(s, u).canEdit

\* C9: getAccessibleCollectionIds returns, for each collection granted to at
\* least one of the user's teams, exactly one entry, with level EDIT if any of
\* those teams grants EDIT and VIEW otherwise, in whatever order the grants
\* are stored; and the empty list for a user who is no member of the
\* workspace or belongs to no team.
C9_MergeMax ==
  \A w \in Workspaces, u \in Users :
    LET r == getAccessibleCollectionIds(w, u)
        userTeams == {tm \in teamMembers : tm[2] = u /\ TeamWorkspace(tm[1]) = w}
        levels(c) == {teamCollections[i].accessLevel :
                        i \in {j \in 1..Len(teamCollections) :
                                 /\ teamCollections[j].collectionId = c
                                 /\ <<teamCollections[j].teamId, u>> \in userTeams}}
    IN
    /\ (members[w][u] = NONE \/ userTeams = {}) => r = <<>>
    /\ members[w][u] # NONE
       => \A c \in CollectionIds :
            LET entries == {i \in 1..Len(r) : r[i].collectionId = c} IN
            /\ Cardinality(entries) = IF levels(c) = {} THEN 0 ELSE 1
            /\ \A i \in entries :
                 /\ r[i].accessLevel = IF "EDIT" \in levels(c) THEN "EDIT" ELSE "VIEW"
                 /\ r[i].canWrite = ("EDIT" \in levels(c))

\* A member of two teams whose grants on one collection the store returns VIEW
\* first, then EDIT, and who is given the single entry EDIT; and a user
\* without membership who is given the empty list.
C9_Witness ==
  /\ \E w \in Workspaces, u \in Users, i \in 1..Len(teamCollections), j \in 1..Len(teamCollections) :
       /\ i < j
       /\ teamCollections[i].collectionId = teamCollections[j].collectionId
       /\ teamCollections[i].accessLevel = "VIEW"
       /\ teamCollections[j].accessLevel = "EDIT"
       /\ <<teamCollections[i].teamId, u>> \in teamMembers
       /\ <<teamCollections[j].teamId, u>> \in teamMembers
       /\ members[w][u] # NONE
       /\ getAccessibleCollectionIds(w, u) =
            <<[collectionId |-> teamCollections[i].collectionId,
               accessLevel |-> "EDIT", canWrite |-> TRUE]>>
  /\ \E w \in Workspaces, u \in Users :
       members[w][u] = NONE /\ getAccessibleCollectionIds(w, u) = <<>>

\* C10: once startCollaboration has answered for a scene, and until the scene
\* is moved, the credentials it returned are the ones persisted, and every
\* further startCollaboration by a caller with canCollaborate returns the same
\* roomId and roomKey and writes nothing.
C10_ProvisioningIdempotent ==
  \A s \in SceneIds :
    (issued[s] # Null /\ Val(issued[s]).answers >= 1)
    => /\ Provisioned(scenes[s])
       /\ scenes[s].roomId = Val(issued[s]).roomId
       /\ decryptRoomKey(secret, Val(scenes[s].roomKeyEncrypted)).roomKey = Val(issued[s]).roomKey
       /\ \A u \in Users :
            checkAccess(s, u).canCollaborate
            => \A d \in RoomIds \X RoomKeys \X Nonces :
                 LET r == startCollaboration(s, u, d[1], d[2], d[3]) IN
                 /\ r.resp.status = "ok"
                 /\ r.resp.roomId = Val(issued[s]).roomId
                 /\ r.resp.roomKey = Val(issued[s]).roomKey
                 /\ ~r.resp.wrote
                 /\ r.scene = scenes[s]

\* startCollaboration has answered a second time for a scene, with the
\* persisted credentials.
C10_Witness ==
  \E s \in SceneIds :
    /\ issued[s] # Null
    /\ Val(issued[s]).answers = 2
    /\ scenes[s].roomId = Val(issued[s]).roomId
    /\ decryptRoomKey(secret, Val(scenes[s].roomKeyEncrypted)).roomKey = Val(issued[s]).roomKey

\* The room fields of a row are both absent or both present.
C11_RoomFieldsTogether(row) == (row.roomId = Null) <=> (row.roomKeyEncrypted = Null)

C12_ProvisionedOnlyByCollaborator ==
  /\ \A id \in SceneIds, u \in Users, d \in RoomIds \X RoomKeys \X Nonces :
       LET r == startCollaboration(id, u, d[1], d[2], d[3]) IN
       (~Provisioned(scenes[id]) /\ Provisioned(r.scene)) => checkAccess(id, u).canCollaborate
  /\ \A w \in Workspaces, id \in SceneIds, u \in Users, d \in RoomIds \X RoomKeys \X Nonces :
       LET r == getSceneBySlug(w, id, u, d[1], d[2], d[3]) IN
       (~Provisioned(scenes[id]) /\ Provisioned(r.scene)) => checkAccess(id, u).canCollaborate
  /\ \A c \in CollectionIds \cup {NONE}, u \in Users, d \in RoomIds \X RoomKeys \X Nonces :
       LET r == createScene(c, u, d[1], d[2], d[3]) IN
       r.created => (r.scene.roomId = Null /\ r.scene.roomKeyEncrypted = Null)

\* C13: moveCollectionToWorkspace into a PERSONAL workspace leaves every
\* scene of the collection without roomId, without encrypted room key and
\* with collaborationEnabled false; into a SHARED workspace it leaves the
\* three fields of every scene of the collection as they were.
C13_MoveToPersonalClearsRooms ==
  [][\A c \in CollectionIds, w \in Workspaces, u \in Users :
       MoveCollectionToWorkspace(c, w, u) =>
         \A s \in SceneIds :
           (scenes[s].exists /\ scenes[s].collectionId = c) =>
             IF WorkspaceType(w) = "PERSONAL"
             THEN /\ scenes'[s].roomId = Null
                  /\ scenes'[s].roomKeyEncrypted = Null
                  /\ scenes'[s].collaborationEnabled = FALSE
             ELSE /\ scenes'[s].roomId = scenes[s].roomId
                  /\ scenes'[s].roomKeyEncrypted = scenes[s].roomKeyEncrypted
                  /\ scenes'[s].collaborationEnabled = scenes[s].collaborationEnabled]_vars

\* The shared collection has been moved into the personal workspace and its
\* scene is without room and closed to collaboration, while the scene of the
\* other collection has kept the room it was given.
C13_Witness ==
  /\ collections["engDocs"].workspaceId = "alicePersonal"
  /\ scenes["s1"].roomId = Null /\ scenes["s1"].roomKeyEncrypted = Null
  /\ ~scenes["s1"].collaborationEnabled
  /\ Provisioned(scenes["s2"])

\* C14 as stated: whenever checkAccess gives the caller canCollaborate =
\* false, startCollaboration fails with Forbidden, leaves the scene row as it
\* is and returns no key.
C14_ForbiddenWhenNotCollaborator ==
  \A id \in SceneIds, u \in Users, d \in RoomIds \X RoomKeys \X Nonces :
    LET r == startCollaboration(id, u, d[1], d[2], d[3]) IN
    ~checkAccess(id, u).canCollaborate =>
      /\ r.resp.status = "Forbidden"
      /\ r.scene = scenes[id]
      /\ r.resp.roomKey = Null

\* C14 amended: whenever checkAccess gives the caller canCollaborate = false,
\* startCollaboration fails, with Forbidden when the scene exists and with
\* NotFound when it does not; it leaves the scene row as it is and returns no
\* key.
C14_DeniedWhenNotCollaborator ==
  \A id \in SceneIds, u \in Users, d \in RoomIds \X RoomKeys \X Nonces :
    LET r == startCollaboration(id, u, d[1], d[2], d[3]) IN
    ~checkAccess(id, u).canCollaborate =>
      /\ r.resp.status = IF scenes[id].exists THEN "Forbidden" ELSE "NotFound"
      /\ r.scene = scenes[id]
      /\ r.resp.roomKey = Null
      /\ r.resp.roomId = Null

\* A scene has a room, and a caller who may view it but not collaborate asks
\* for it.
C14_Witness ==
  \E id \in SceneIds, u \in Users :
    /\ Provisioned(scenes[id])
    /\ checkAccess(id, u).canView
    /\ ~checkAccess(id, u).canCollaborate
    /\ startCollaboration(id, u, 1, 1, 1).resp.status = "Forbidden"

\* checkAccess answers all-false for a scene that does not exist and for a
\* caller without membership in the workspace of the scene's collection.
C15_AllFalseWhenAbsent ==
  \A id \in SceneIds, u \in Users :
    /\ ~scenes[id].exists => checkAccess(id, u) = Verdict(FALSE, FALSE, FALSE)
    /\ (/\ scenes[id].exists
        /\ scenes[id].collectionId # NONE
        /\ getMembership(collections[scenes[id].collectionId].workspaceId, u) = NONE)
       => checkAccess(id, u) = Verdict(FALSE, FALSE, FALSE)

\* C15: checkAccess raises no error for a missing scene or a missing
\* membership, it returns (false, false, false) in both cases, and the step
\* of a handler that awaits it changes no table of the store.
C15_CheckAccessAllFalseNoWrite ==
  [][/\ C15_AllFalseWhenAbsent
     /\ C15_AllFalseWhenAbsent'
     /\ \A p \in Procs : CheckAccess(p) => UNCHANGED store]_vars

\* A handler has obtained the all-false verdict for a scene that does not
\* exist, and another for a caller who is no member of the scene's workspace.
C15_Witness ==
  /\ \E p \in Procs : /\ calls[p].pc = "checked"
                       /\ ~scenes[calls[p].id].exists
                       /\ calls[p].access = Verdict(FALSE, FALSE, FALSE)
  /\ \E p \in Procs : /\ calls[p].pc = "checked"
                       /\ scenes[calls[p].id].exists
                       /\ getMembership(collections[scenes[calls[p].id].collectionId].workspaceId,
                                        calls[p].userId) = NONE
                       /\ calls[p].access = Verdict(FALSE, FALSE, FALSE)

\* C16: for a member, listCollections returns exactly the collections of
\* the workspace that the caller may see (ADMIN, or owner, or the collection
\* is not private and a team of the caller holds a grant on it), once each,
\* with canWrite true iff the caller is ADMIN, or owner, or a team of the
\* caller holds an EDIT grant on it; a private collection of another user is
\* not returned to a non-ADMIN whatever the grants.
C16_ListCollectionsVisibility ==
  \A w \in Workspaces, u \in Users :
    getMembership(w, u) # NONE =>
      LET r == listCollections(w, u)
          isAdmin == getMembership(w, u) = "ADMIN"
          grants(c) == {i \in 1..Len(teamCollections) :
                          /\ teamCollections[i].collectionId = c
                          /\ <<teamCollections[i].teamId, u>> \in teamMembers}
          visible(c) == \/ isAdmin
                        \/ collections[c].userId = u
                        \/ (~collections[c].isPrivate /\ grants(c) # {})
          writable(c) == \/ isAdmin
                         \/ collections[c].userId = u
                         \/ \E i \in grants(c) : teamCollections[i].accessLevel = "EDIT"
      IN
      /\ r.status = "ok"
      /\ {r.list[i].id : i \in 1..Len(r.list)}
           = {c \in CollectionIds : collections[c].workspaceId = w /\ visible(c)}
      /\ \A i, j \in 1..Len(r.list) : r.list[i].id = r.list[j].id => i = j
      /\ \A i \in 1..Len(r.list) : r.list[i].canWrite <=> writable(r.list[i].id)
      /\ \A i \in 1..Len(r.list) :
           (collections[r.list[i].id].isPrivate /\ collections[r.list[i].id].userId # u)
             => isAdmin

\* A member who is not ADMIN is in a team with a grant on another user's
\* private collection, and the listing leaves that collection out while it
\* returns another one the member may not write.
C16_Witness ==
  \E w \in Workspaces, u \in Users, c \in CollectionIds :
    /\ getMembership(w, u) \in {"MEMBER", "VIEWER"}
    /\ collections[c].workspaceId = w
    /\ collections[c].isPrivate /\ collections[c].userId # u
    /\ \E i \in 1..Len(teamCollections) :
         teamCollections[i].collectionId = c /\ <<teamCollections[i].teamId, u>> \in teamMembers
    /\ LET r == listCollections(w, u) IN
       /\ \A i \in 1..Len(r.list) : r.list[i].id # c
       /\ \E i \in 1..Len(r.list) : ~r.list[i].canWrite

\* C17: requireWriteAccess succeeds iff the caller can write the collection,
\* fails with the no-read-access reason iff the caller cannot read it, and
\* with the read-but-no-write-access reason iff the caller can read and not
\* write it; it is an evaluation over the store and writes nothing.
C17_RequireWriteAccessReasons ==
  \A c \in CollectionIds, u \in Users :
    LET w == collections[c].workspaceId
        role == getMembership(w, u)
        grants == {i \in 1..Len(teamCollections) :
                     /\ teamCollections[i].collectionId = c
                     /\ <<teamCollections[i].teamId, u>> \in teamMembers}
        canRead == /\ role # NONE
                   /\ \/ role = "ADMIN"
                      \/ collections[c].userId = u
                      \/ (~collections[c].isPrivate /\ grants # {})
        canWrite == /\ canRead
                    /\ \/ role = "ADMIN"
                       \/ collections[c].userId = u
                       \/ \E i \in grants : teamCollections[i].accessLevel = "EDIT"
        r == requireWriteAccess(c, u)
    IN
    /\ r \in {"ok", "NoReadAccess", "NoWriteAccess"}
    /\ (r = "ok") <=> canWrite
    /\ (r = "NoReadAccess") <=> ~canRead
    /\ (r = "NoWriteAccess") <=> (canRead /\ ~canWrite)

\* On one collection the three outcomes occur, for three callers.
C17_Witness ==
  \E c \in CollectionIds, u1, u2, u3 \in Users :
    /\ requireWriteAccess(c, u1) = "ok" /\ getMembership(collections[c].workspaceId, u1) # "ADMIN"
    /\ requireWriteAccess(c, u2) = "NoWriteAccess"
    /\ requireWriteAccess(c, u3) = "NoReadAccess"
    /\ getMembership(collections[c].workspaceId, u3) # NONE

\* C18: for every room key, nonce and configured secret, encryptRoomKey lays
\* the blob out as nonce (12 bytes), authentication tag (16 bytes),
\* ciphertext, and decryptRoomKey of that blob under the same secret gives
\* the room key back; a stored blob that decrypts gives the key the scene's
\* room was issued with.
C18_EncryptDecryptRoundTrip ==
  /\ \A s \in RotatedSecrets, k \in RoomKeys, iv \in Nonces :
       LET e == encryptRoomKey(Some(s), iv, k)
           b == Val(e.blob)
           ct == SubSeq(b, 29, Len(b))
       IN
       /\ e.ok
       /\ Len(b) > 28
       /\ SubSeq(b, 1, 12) = Bytes(iv, 12)
       /\ SubSeq(b, 13, 28) = Bytes(AuthTag(DeriveKey(s), iv, Cipher(DeriveKey(s), iv, k)), 16)
       /\ ct = Bytes(Cipher(DeriveKey(s), iv, k), 1)
       /\ decryptRoomKey(Some(s), b) = [ok |-> TRUE, error |-> "", roomKey |-> Some(k)]
  /\ \A id \in SceneIds :
       (/\ issued[id] # Null
        /\ Provisioned(scenes[id])
        /\ decryptRoomKey(secret, Val(scenes[id].roomKeyEncrypted)).ok)
       => decryptRoomKey(secret, Val(scenes[id].roomKeyEncrypted)).roomKey
            = Val(issued[id]).roomKey

\* A scene holds a blob whose ciphertext differs from the room key it was
\* issued with, and the blob decrypts to that key.
C18_Witness ==
  \E id \in SceneIds :
    /\ issued[id] # Null
    /\ Provisioned(scenes[id])
    /\ Val(scenes[id].roomKeyEncrypted)[29][1] # Val(Val(issued[id]).roomKey)
    /\ decryptRoomKey(secret, Val(scenes[id].roomKeyEncrypted)).roomKey = Val(issued[id]).roomKey

\* The stored blob's tag does not match under the configured secret: a byte
\* of the blob was flipped, or the blob was made under another secret.
C19_TagMismatch(blob) ==
  \/ ~Intact(blob)
  \/ blob[13][1][1] # DeriveKey(Val(secret))

C20_MisconfiguredWithoutSecret ==
  secret = Null =>
    /\ \A id \in SceneIds, u \in Users, d \in RoomIds \X RoomKeys \X Nonces :
         LET access == checkAccess(id, u)
             sc == startCollaboration(id, u, d[1], d[2], d[3])
             info == getCollaborationInfo(id, u)
         IN
         /\ sc.scene = scenes[id] /\ sc.resp.roomKey = Null
         /\ access.canCollaborate => sc.resp.status = "Misconfigured"
         /\ (access.canView /\ Provisioned(scenes[id]))
              => (info.status = "Misconfigured" /\ info.roomKey = Null)
         /\ \A w \in Workspaces :
              LET g == getSceneBySlug(w, id, u, d[1], d[2], d[3]) IN
              /\ g.scene = scenes[id] /\ g.resp.roomKey = Null
              /\ (access.canCollaborate /\ collections[scenes[id].collectionId].workspaceId = w)
                   => g.resp.status = "Misconfigured"
    /\ \A c \in CollectionIds, u \in Users, d \in RoomIds \X RoomKeys \X Nonces :
         (/\ requireWriteAccess(c, u) = "ok"
          /\ WorkspaceType(collections[c].workspaceId) = "SHARED"
          /\ ~collections[c].isPrivate)
         => LET r == createScene(c, u, d[1], d[2], d[3]) IN
            r.status = "Misconfigured" /\ ~r.created

\* The secret has been unset while one scene has a room and another has
\* none, and a caller who may collaborate on each is refused.
C20_Witness ==
  /\ secret = Null
  /\ \E id \in SceneIds, u \in Users :
       /\ Provisioned(scenes[id])
       /\ checkAccess(id, u).canCollaborate
       /\ startCollaboration(id, u, 1, 1, 1).resp.status = "Misconfigured"
  /\ \E id \in SceneIds, u \in Users :
       /\ scenes[id].exists /\ ~Provisioned(scenes[id])
       /\ checkAccess(id, u).canCollaborate
       /\ startCollaboration(id, u, 1, 1, 1).resp.status = "Misconfigured"

\* The characters of unpadded base64url.
C21_UrlSafeChars ==
  {Base64Chars[i] : i \in 1..62} \cup {"-", "_"}

\* C21: every room key a handler returns (startCollaboration, getSceneBySlug,
\* getCollaborationInfo), freshly generated or decrypted from a stored blob,
\* is the unpadded base64url text of 16 bytes: 22 URL-safe characters.
C21_RoomKeyIsBase64UrlOf16Bytes ==
  /\ \A s \in SceneIds :
       issued[s] # Null =>
         LET text == RoomKeyText(Val(Val(issued[s]).roomKey)) IN
         /\ Len(text) = 22
         /\ \A i \in 1..Len(text) : text[i] \in C21_UrlSafeChars
  /\ \A s \in SceneIds, u \in Users :
       LET r == getCollaborationInfo(s, u) IN
       (r.status = "ok" /\ r.roomKey # Null) =>
         LET text == RoomKeyText(Val(r.roomKey)) IN
         /\ Len(text) = 22
         /\ \A i \in 1..Len(text) : text[i] \in C21_UrlSafeChars

\* The caller is an ADMIN of workspace w and w is SHARED.
C22_AdminOfShared(w, u) ==
  /\ w # NONE
  /\ WorkspaceType(w) = "SHARED"
  /\ members[w][u] = "ADMIN"

\* C22: team rows and team-collection grant rows are created and destroyed
\* only by a request of an ADMIN of the workspace they belong to, and only
\* when that workspace is SHARED: a request of any other caller leaves the
\* teams and the grants as they were.
C22_TeamsAndGrantsOnlyByAdmin ==
  [][/\ \A t \in TeamIds, w \in Workspaces, a \in Users, m \in SUBSET Users,
           c \in UNION {Orders(S) : S \in SUBSET CollectionIds} :
           (~C22_AdminOfShared(w, a) /\ CreateTeam(t, w, a, m, c))
             => UNCHANGED <<teams, teamCollections>>
     /\ \A t \in TeamIds, a \in Users :
           (~C22_AdminOfShared(teams[t], a) /\ DeleteTeam(t, a))
             => UNCHANGED <<teams, teamCollections>>
     /\ \A t \in TeamIds, a \in Users,
           m \in {Null} \cup {Some(S) : S \in SUBSET Users},
           c \in {Null} \cup {Some(o) : o \in UNION {Orders(S) : S \in SUBSET CollectionIds}} :
           (~C22_AdminOfShared(teams[t], a) /\ UpdateTeam(t, a, m, c))
             => UNCHANGED <<teams, teamCollections>>
     /\ \A c \in CollectionIds, w \in Workspaces, u \in Users :
           (~C22_AdminOfShared(collections[c].workspaceId, u)
            /\ MoveCollectionToWorkspace(c, w, u))
             => UNCHANGED <<teams, teamCollections>>]_vars

\* A PERSONAL workspace has its creator as only member and holds no team.
C23_PersonalIsolated ==
  \A w \in Workspaces :
    WorkspaceType(w) = "PERSONAL" =>
      /\ \A u \in Users : members[w][u] # NONE => u = "alice"
      /\ \A t \in TeamIds : teams[t] # w

\* C23: a PERSONAL workspace never has a member besides its creator nor a
\* team, and inviteMember, createInviteLink, joinViaInviteLink and createTeam
\* on a PERSONAL workspace leave the memberships, the invite links and the
\* teams as they were.
C23_PersonalWorkspaceClosed ==
  /\ []C23_PersonalIsolated
  /\ [][\A w \in Workspaces :
          WorkspaceType(w) = "PERSONAL" =>
            /\ \A a \in Users, u \in Users, r \in Roles :
                  InviteMember(w, a, u, r) => UNCHANGED <<members, teams, inviteLinks>>
            /\ \A code \in InviteCodes, a \in Users, r \in {NONE, "VIEWER"},
                  e \in {Null} \cup {Some(x) : x \in InviteExpiries},
                  m \in {Null} \cup {Some(x) : x \in InviteMaxUses} :
                  CreateInviteLink(code, w, a, r, e, m) => UNCHANGED <<members, teams, inviteLinks>>
            /\ \A p \in Procs :
                  (requests[p].workspaceId = w /\ (FindExistingMember(p) \/ JoinTransaction(p)))
                    => UNCHANGED <<members, teams, inviteLinks>>
            /\ \A t \in TeamIds, a \in Users, m \in SUBSET Users :
                  CreateTeam(t, w, a, m, <<>>) => UNCHANGED <<members, teams, inviteLinks>>]_vars

\* The shared workspace has gained a member through an invite link and a
\* third team, while the personal workspace, whose requests are refused,
\* still has its creator alone and no team.
C23_Witness ==
  /\ C23_PersonalIsolated
  /\ requireSharedWorkspace("alicePersonal") = "Forbidden"
  /\ requireRole("alicePersonal", "alice", "ADMIN").status = "ok"
  /\ \E code \in InviteCodes : inviteLinks[code].exists /\ inviteLinks[code].uses > 0
  /\ members["acme"]["eve"] # NONE
  /\ teams["ops"] = "acme"

\* role is at least minRole in the order ADMIN > MEMBER > VIEWER.
C24_AtLeast(role, minRole) ==
  <<role, minRole>> \in {<<"ADMIN", "ADMIN">>, <<"ADMIN", "MEMBER">>, <<"ADMIN", "VIEWER">>,
                          <<"MEMBER", "MEMBER">>, <<"MEMBER", "VIEWER">>,
                          <<"VIEWER", "VIEWER">>}

\* C24: requireRole(workspace, user, minRole) succeeds and returns the
\* caller's membership exactly when the caller is a member whose role is at
\* least minRole (ADMIN > MEMBER > VIEWER); for a non-member and for a
\* member of lower role it throws Forbidden.
C24_RequireRoleHierarchy ==
  \A w \in Workspaces, u \in Users, minRole \in Roles :
    LET r == requireRole(w, u, minRole) IN
    IF members[w][u] # NONE /\ C24_AtLeast(members[w][u], minRole)
    THEN /\ r.status = "ok"
         /\ r.membership = Some([workspaceId |-> w, userId |-> u, role |-> members[w][u]])
    ELSE /\ r.status = "Forbidden"
         /\ r.membership = Null

\* After a change of roles: a promoted member passes requireRole(ADMIN), a
\* VIEWER passes only requireRole(VIEWER), and a non-member passes nothing.
C24_Witness ==
  /\ members["acme"]["bob"] = "ADMIN"
  /\ requireRole("acme", "bob", "ADMIN").status = "ok"
  /\ requireRole("acme", "dave", "VIEWER").status = "ok"
  /\ requireRole("acme", "dave", "MEMBER").status = "Forbidden"
  /\ requireRole("acme", "eve", "VIEWER").status = "Forbidden"

\* C25: in every state reachable by createScene, moveScene, updateScene with
\* a collectionId, duplicateScene, moveCollectionToWorkspace and
\* startCollaboration in any order, no scene whose collection is in a
\* PERSONAL workspace holds a roomId or an encrypted room key.
C25_NoRoomInPersonalWorkspace ==
  \A s \in SceneIds :
    (/\ scenes[s].exists
     /\ scenes[s].collectionId # NONE
     /\ WorkspaceType(collections[scenes[s].collectionId].workspaceId) = "PERSONAL")
      => (scenes[s].roomId = Null /\ scenes[s].roomKeyEncrypted = Null)

\* C26: for every entry listScenes(workspaceId[, collectionId]) returns to a
\* caller, checkAccess(scene, caller).canView is true and the entry's canEdit
\* equals checkAccess(scene, caller).canEdit.
C26_ListScenesRefinesCheckAccess ==
  \A w \in Workspaces, u \in Users, c \in CollectionIds \cup {NONE} :
    LET r == listWorkspaceScenes(u, w, c) IN
    r.status = "ok" =>
      \A e \in r.list :
        /\ checkAccess(e.id, u).canView
        /\ e.canEdit = checkAccess(e.id, u).canEdit

\* The caller is a VIEWER of the workspace collection c belongs to.
C27_ViewerOf(c, u) ==
  /\ c # NONE
  /\ members[collections[c].workspaceId][u] = "VIEWER"

\* C27: no request of a workspace VIEWER creates a scene in, duplicates a
\* scene into or moves a scene into a collection of that workspace.
C27_ViewerNeverPlacesScenes ==
  [][/\ \A id \in SceneIds, c \in CollectionIds, u \in Users :
           ~(C27_ViewerOf(c, u) /\ CreateScene(id, c, u))
     /\ \A n \in SceneIds, id \in SceneIds, u \in Users, c \in CollectionIds \cup {NONE} :
           ~(/\ C27_ViewerOf(IF c # NONE THEN c ELSE scenes[id].collectionId, u)
             /\ DuplicateScene(n, id, u, c))
     /\ \A id \in SceneIds, c \in CollectionIds, u \in Users :
           ~(C27_ViewerOf(c, u) /\ MoveScene(id, c, u))
     /\ \A id \in SceneIds, c \in CollectionIds, u \in Users :
           ~(C27_ViewerOf(c, u) /\ UpdateSceneHandler(id, u, Some(c)))]_vars

\* C28: a workspace that has an ADMIN still has one after updateMemberRole
\* and removeMember requests in any order and interleaving.
C28_AlwaysAnAdmin ==
  \A w \in Workspaces : adminCount(w) >= 1

\* The counter of every invite link with maxUses set is at most maxUses.
C29_WithinMaxUses ==
  \A code \in InviteCodes :
    (inviteLinks[code].exists /\ inviteLinks[code].maxUses # Null)
      => inviteLinks[code].uses <= Val(inviteLinks[code].maxUses)

\* C29: for every invite link with maxUses set, the uses counter (and with
\* it the memberships created through the link) never exceeds maxUses under
\* any interleaving of joinViaInviteLink requests; and a join by a user who
\* is a member already creates no membership and leaves the counter alone.
C29_JoinsBoundedByMaxUses ==
  /\ []C29_WithinMaxUses
  /\ [][\A p \in Procs :
          (/\ requests[p].op = "joinViaInviteLink"
           /\ members[requests[p].workspaceId][requests[p].userId] # NONE
           /\ (FindExistingMember(p) \/ JoinTransaction(p)))
            => UNCHANGED <<members, inviteLinks>>]_vars

\* updateTeam(teamId, userId, dto) ends in an error: no such team, a
\* PERSONAL workspace, a caller who is no ADMIN, or a member id or a
\* collection id that is not of the team's workspace.
C30_Fails(teamId, userId, memberIds, collectionIds) ==
  IF teams[teamId] = NONE THEN TRUE
  ELSE
    \/ WorkspaceType(teams[teamId]) = "PERSONAL"
    \/ members[teams[teamId]][userId] # "ADMIN"
    \/ (memberIds # Null /\ \E u \in Val(memberIds) : members[teams[teamId]][u] = NONE)
    \/ (collectionIds # Null
        /\ \E c \in Range(Val(collectionIds)) : collections[c].workspaceId # teams[teamId])

\* C30: updateTeam is all-or-nothing on error: a request that fails leaves
\* the team's members and grants exactly as they were.
C30_UpdateTeamAllOrNothing ==
  [][\A t \in TeamIds, a \in Users,
        m \in {Null} \cup {Some(S) : S \in SUBSET Users},
        c \in {Null} \cup {Some(o) : o \in UNION {Orders(S) : S \in SUBSET CollectionIds}} :
        (C30_Fails(t, a, m, c) /\ UpdateTeam(t, a, m, c))
          => UNCHANGED <<teamMembers, teamCollections>>]_vars

====
